---- MODULE Spec2Model ----
(***************************************************************************)
(* Umple language server (server.ts): the document store, the debounced    *)
(* validation pipeline, the model cache behind completion, the UmpleSync   *)
(* bridge with its auto-start and retry loop, and the go-to-definition     *)
(* handler with its shadow workspace.                                      *)
(*                                                                         *)
(* One action is one run of the single-threaded event loop from one        *)
(* suspension point (an await on socket, process, timer or file-system     *)
(* I/O) to the next.  An await on an already settled promise is not a      *)
(* suspension point: its continuation runs in the microtask queue before   *)
(* any further editor message, timer or I/O completion is handled.         *)
(***************************************************************************)
EXTENDS Integers, Sequences, FiniteSets, TLC

\* ---- bounds of the model ------------------------------------------------
MaxEvents == 2        \* editor notifications (open / change / close)
MaxTasks == 2         \* handler runs started (validation, completion, definition)
MaxRaw == 8           \* length of a raw UmpleSync output
MaxText == 5          \* length of the text before the cursor
MaxDoc == 3           \* length of the buffer text a diagnostic is placed in
MaxItems == 2         \* keywords, model items and class names of a completion
MaxCoord == 3         \* line and column of a lookup result
MaxOut == 5           \* length of a compiler output handed to a reader

\* ---- program constants --------------------------------------------------
MaxRetries == 5       \* for (attempt = 0; attempt < 5; ...)
ScanWindow == 20000   \* detectContext scans the last 20000 characters

\* The buffers of the model: one saved file inside the workspace folder and
\* one untitled buffer (a URI that is not a file: URI).
FileUri == "file:///ws/a.ump"
UntitledUri == "untitled:b"
Uris == {FileUri, UntitledUri}

\* Error codes a socket attempt can fail with.  "TIMEOUT" is the error made
\* by socket.destroy(new Error("umplesync socket timeout")): it has no code.
\* "EOTHER" stands for every other failure (EHOSTUNREACH, ENOTFOUND, ...).
ErrorCodes == {"ECONNREFUSED", "ECONNRESET", "EPIPE", "TIMEOUT", "EOTHER"}
NoError == "none"

VARIABLES
    docs,               \* heap of TextDocument objects: Seq of [uri, version]
    documents,          \* Map uri -> TextDocument (index into docs)
    pendingValidations, \* Map uri -> timer handle (index into timers)
    timers,             \* every timer made by setTimeout: Seq of [uri, doc, state]
    modelCache,         \* Map uri -> [version, items]
    config,             \* initializationOptions as resolved at start
    jarWarningShown,
    warnings,           \* number of showWarningMessage calls
    serverProcess,      \* TRUE once a ChildProcess is stored
    spawnCount,         \* number of spawn("java", ...) calls
    childState,         \* the spawned process: "none", "up", "failed", "exited"
    tasks,              \* handler runs: Seq of task records
    fs,                 \* temp files, temp and shadow directories made on disk,
                        \* and the project file once the server wrote into it
    published,          \* Map uri -> last diagnostics sent
    log,                \* kinds of message written to connection.console
    events,             \* number of editor notifications handled
    call                \* the call of a pure helper function under study

vars == <<docs, documents, pendingValidations, timers, modelCache, config,
          jarWarningShown, warnings, serverProcess, spawnCount, childState,
          tasks, fs, published, log, events, call>>

\* The variables of the server proper.
serverVars == <<docs, documents, pendingValidations, timers, modelCache, config,
                jarWarningShown, warnings, serverProcess, spawnCount, childState,
                tasks, fs, published, log, events>>

\* No helper call is under study.
NoCall == [fn |-> "none"]

\* ---- values -------------------------------------------------------------
\* The text of a buffer is identified by the object that holds it and its
\* version: every open and every change brings new text.
Content(d) == <<d, docs[d].version>>
NoContent == <<0, 0>>

\* The diagnostics sent by onDidCloseTextDocument: the empty list.
Cleared == <<0, 1>>

\* getDocumentFilePath: null unless the URI starts with "file:".
getDocumentFilePath(u) == IF u = FileUri THEN "/ws/a.ump" ELSE "null"

\* getDocumentDirectory: the directory of the file path, or null.
getDocumentDirectory(u) == IF getDocumentFilePath(u) = "null" THEN "null" ELSE "/ws"

\* getWorkspaceRootForPath: the first workspace root the path is inside.
getWorkspaceRootForPath(p) ==
    IF p = "/ws/a.ump" /\ config.roots THEN "/ws" ELSE "null"

\* ---- paths and the project on disk ---------------------------------------
\* A path is the sequence of its segments below the file-system root; a
\* relative path may start with ".." segments.
Segments(p) ==
    CASE p = "/ws/a.ump" -> <<"ws", "a.ump">>
      [] p = "/ws" -> <<"ws">>
      [] OTHER -> <<>>

\* The length of the longest common prefix of two paths.
RECURSIVE CommonPrefix(_, _)
CommonPrefix(a, b) ==
    IF a = <<>> \/ b = <<>> \/ Head(a) # Head(b) THEN 0
    ELSE 1 + CommonPrefix(Tail(a), Tail(b))

\* path.relative(from, to) for absolute paths: one ".." for every segment
\* of from after the common prefix, then the rest of to.
relative(from, to) ==
    LET k == CommonPrefix(from, to) IN
    [n \in 1..(Len(from) - k) |-> ".."] \o SubSeq(to, k + 1, Len(to))

\* path.join(base, rel) with base absolute: the segments are joined and ".."
\* segments are resolved (the root has no parent).
RECURSIVE join(_, _)
join(base, rel) ==
    IF rel = <<>> THEN base
    ELSE IF Head(rel) = ".."
         THEN join(IF base = <<>> THEN base ELSE SubSeq(base, 1, Len(base) - 1),
                   Tail(rel))
         ELSE join(Append(base, Head(rel)), Tail(rel))

\* isPathInside(filePath, root): the relative path from root does not start
\* with ".." (a relative path is never absolute on POSIX).
isPathInside(filePath, root) ==
    LET rel == relative(root, filePath) IN rel = <<>> \/ Head(rel) # ".."

\* The files below the workspace folder /ws on disk: the directories from
\* the folder down, the base name and the extension of each.
DiskFiles ==
    { [dirs |-> <<>>, base |-> "a", ext |-> "ump"],
      [dirs |-> <<"lib">>, base |-> "c", ext |-> "ump"],
      [dirs |-> <<"node_modules">>, base |-> "x", ext |-> "ump"],
      [dirs |-> <<>>, base |-> "notes", ext |-> "txt"] }

\* The file of the buffer FileUri.
AFile == [dirs |-> <<>>, base |-> "a", ext |-> "ump"]

SKIP_DIRS == {".git", "node_modules", "out", "dist", "build", ".vscode", ".idea"}

walkUmpleFilesNoSkip == { f \in DiskFiles : f.ext = "ump" }

\* walkUmpleFiles(root, onFile): the files onFile is called for, every file
\* whose name ends with ".ump" below no skipped directory.
walkUmpleFiles ==
    { f \in DiskFiles :
        /\ f.ext = "ump"
        /\ \A k \in DOMAIN f.dirs : f.dirs[k] \notin SKIP_DIRS }

\* isConnectionError: ECONNREFUSED, ECONNRESET or EPIPE.
isConnectionErrorAll(e) == e # NoError
isConnectionError(e) == e \in {"ECONNREFUSED", "ECONNRESET", "EPIPE"}

TaskIds == 1..Len(tasks)
TimerIds == 1..Len(timers)

\* A handler run.  kind: "diag" (validateTextDocument), "model" (onCompletion)
\* or "def" (onDefinition); pc: the await the run is suspended at; res: what
\* the handler ended with; ms: Date.now() in the name of its temp file.  The shadow tree of a definition request: links
\* (project files linked or copied), temps (temp files of other runs linked
\* or copied), over (the text written over the shadow file of FileUri), odoc
\* (the document the overlay is at).
NewTask(kind, u, d) ==
    [kind |-> kind, uri |-> u, doc |-> d,
     ver |-> IF d = 0 THEN 0 ELSE docs[d].version,
     pc |-> "start", tries |-> 0, firstErr |-> NoError, err |-> NoError,
     out |-> "none", text |-> NoContent, path |-> "none",
     dispatched |-> FALSE, exit |-> "none", res |-> "pending",
     links |-> {}, temps |-> {}, over |-> NoContent, odoc |-> 0, ms |-> 0]

\* A Map with no entry.
EmptyMap == [x \in {} |-> 0]

\* ---- initial state ------------------------------------------------------
\* The state after onInitialize, with the given options resolved: jar (the
\* UmpleSync jar path is set and the file exists), def (the Umple jar and
\* the go-to-definition classpath are set and exist), roots (the workspace
\* folder /ws was given).
Constructed(options) ==
    /\ docs = <<>>
    /\ documents = EmptyMap
    /\ pendingValidations = EmptyMap
    /\ timers = <<>>
    /\ modelCache = EmptyMap
    /\ config \in options
    /\ jarWarningShown = FALSE
    /\ warnings = 0
    /\ serverProcess = FALSE
    /\ spawnCount = 0
    /\ childState = "none"
    /\ tasks = <<>>
    /\ fs = {}
    /\ published = EmptyMap
    /\ log = {}
    /\ events = 0

InitWith(options) == Constructed(options) /\ call = NoCall

\* A server with every tool path and the workspace folder configured.
Init == InitWith([jar : {TRUE}, def : {TRUE}, roots : {TRUE}])

\* A server started with any initialization options.
InitAnyConfig == InitWith([jar : BOOLEAN, def : BOOLEAN, roots : BOOLEAN])

\* Map helpers: set(k, v) and delete(k) on a function with a finite domain.
MapSet(m, k, v) == [x \in (DOMAIN m) \cup {k} |-> IF x = k THEN v ELSE m[x]]
MapDelete(m, k) == [x \in (DOMAIN m) \ {k} |-> m[x]]

\* ---- debounce (scheduleValidation) --------------------------------------
clearTimeoutNothing(ts, h) == ts

\* clearTimeout(handle): a timer that has not fired yet never fires.
clearTimeout(ts, h) ==
    IF ts[h].state = "live" THEN [ts EXCEPT ![h].state = "cancelled"] ELSE ts

scheduleValidationNoClear(u, d) ==
    /\ timers' = Append(timers, [uri |-> u, doc |-> d, state |-> "live"])
    /\ pendingValidations' = MapSet(pendingValidations, u, Len(timers) + 1)

\* scheduleValidation(document): cancel the timer stored for the URI, make
\* a new one and store its handle.
scheduleValidation(u, d) ==
    LET cleared == IF u \in DOMAIN pendingValidations
                   THEN clearTimeout(timers, pendingValidations[u])
                   ELSE timers
    IN /\ timers' = Append(cleared, [uri |-> u, doc |-> d, state |-> "live"])
       /\ pendingValidations' = MapSet(pendingValidations, u, Len(timers) + 1)

\* ---- editor notifications -----------------------------------------------
\* onDidOpenTextDocument.  The editor opens only a URI that is not open.
OnDidOpen(u) ==
    /\ events < MaxEvents
    /\ u \notin DOMAIN documents
    /\ events' = events + 1
    /\ docs' = Append(docs, [uri |-> u, version |-> 1])
    /\ documents' = MapSet(documents, u, Len(docs) + 1)
    /\ scheduleValidation(u, Len(docs) + 1)
    /\ UNCHANGED <<call, modelCache, config, jarWarningShown, warnings, serverProcess,
                   spawnCount, childState, tasks, fs, published, log>>

OnDidChangeLate(u) ==
    /\ events < MaxEvents
    /\ events' = events + 1
    /\ IF u \notin DOMAIN documents
       THEN UNCHANGED <<modelCache, timers, pendingValidations>>
       ELSE /\ modelCache' = MapDelete(modelCache, u)
            /\ scheduleValidation(u, documents[u])
    /\ UNCHANGED <<call, docs, documents, config, jarWarningShown, warnings, serverProcess,
                   spawnCount, childState, tasks, fs, published, log>>

OnDidChangeAbort(u) ==
    /\ events < MaxEvents
    /\ events' = events + 1
    /\ IF u \notin DOMAIN documents
       THEN UNCHANGED <<docs, documents, modelCache, timers, pendingValidations, tasks>>
       ELSE LET d == documents[u] IN
            /\ docs' = [docs EXCEPT ![d].version = @ + 1]
            /\ documents' = MapSet(documents, u, d)
            /\ modelCache' = MapDelete(modelCache, u)
            /\ scheduleValidation(u, d)
            /\ tasks' = [i \in DOMAIN tasks |->
                            IF tasks[i].kind = "diag" /\ tasks[i].doc = d
                               /\ tasks[i].pc # "done"
                            THEN [tasks[i] EXCEPT !.pc = "done", !.res = "cancelled"]
                            ELSE tasks[i]]
    /\ UNCHANGED <<call, config, jarWarningShown, warnings, serverProcess,
                   spawnCount, childState, fs, published, log>>

OnDidChangeNoGuard(u) ==
    /\ events < MaxEvents
    /\ events' = events + 1
    /\ IF u \notin DOMAIN documents
       THEN /\ docs' = Append(docs, [uri |-> u, version |-> 1])
            /\ documents' = MapSet(documents, u, Len(docs) + 1)
            /\ modelCache' = MapDelete(modelCache, u)
            /\ scheduleValidation(u, Len(docs) + 1)
       ELSE LET d == documents[u] IN
            /\ docs' = [docs EXCEPT ![d].version = @ + 1]
            /\ documents' = MapSet(documents, u, d)
            /\ modelCache' = MapDelete(modelCache, u)
            /\ scheduleValidation(u, d)
    /\ UNCHANGED <<call, config, jarWarningShown, warnings, serverProcess,
                   spawnCount, childState, tasks, fs, published, log>>

\* onDidChangeTextDocument.  TextDocument.update changes the stored object
\* in place and returns it, so every holder of the object sees the new
\* version and text.
OnDidChange(u) ==
    /\ events < MaxEvents
    /\ events' = events + 1
    /\ IF u \notin DOMAIN documents
       THEN UNCHANGED <<docs, documents, modelCache, timers, pendingValidations>>
       ELSE LET d == documents[u] IN
            /\ docs' = [docs EXCEPT ![d].version = @ + 1]
            /\ documents' = MapSet(documents, u, d)
            /\ modelCache' = MapDelete(modelCache, u)
            /\ scheduleValidation(u, d)
    /\ UNCHANGED <<call, config, jarWarningShown, warnings, serverProcess,
                   spawnCount, childState, tasks, fs, published, log>>

OnDidCloseKeepCache(u) ==
    /\ events < MaxEvents
    /\ u \in DOMAIN documents
    /\ events' = events + 1
    /\ documents' = MapDelete(documents, u)
    /\ published' = MapSet(published, u, Cleared)
    /\ UNCHANGED <<call, docs, pendingValidations, timers, config, jarWarningShown,
                   warnings, serverProcess, spawnCount, childState, tasks, fs, log,
                   modelCache>>

\* onDidCloseTextDocument.  The editor closes only a URI that is open.
OnDidClose(u) ==
    /\ events < MaxEvents
    /\ u \in DOMAIN documents
    /\ events' = events + 1
    /\ documents' = MapDelete(documents, u)
    /\ modelCache' = MapDelete(modelCache, u)
    /\ published' = MapSet(published, u, Cleared)
    /\ UNCHANGED <<call, docs, pendingValidations, timers, config, jarWarningShown,
                   warnings, serverProcess, spawnCount, childState, tasks, fs, log>>

\* ---- handler runs -------------------------------------------------------
Put(ts, i, t) == IF i = Len(ts) + 1 THEN Append(ts, t) ELSE [ts EXCEPT ![i] = t]

\* The run goes on to its next await.
Continue(i, t) ==
    /\ tasks' = Put(tasks, i, t)
    /\ UNCHANGED <<modelCache, published, log>>

\* What the handler ends with.  inTry: the exception, if any, was raised
\* inside the try block of onDefinition.
Outcome(t, inTry) ==
    CASE t.kind = "model" ->
            \* getModelCompletions catches every exception of generateModelJson
            IF t.err = NoError /\ t.out = "ok" THEN "items" ELSE "empty"
      [] t.kind = "diag" ->
            \* validateTextDocument has no catch: its promise rejects
            IF t.err = NoError THEN "published" ELSE "threw"
      [] OTHER ->
            \* onDefinition: the catch covers only the try block
            IF t.err # NoError THEN (IF inTry THEN "empty" ELSE "threw")
            ELSE IF t.out = "found" THEN "location" ELSE "empty"

\* The record kept of a run that has ended: the locals of the run are gone,
\* the result stays (for a completion also the text the items came from).
Done(t, res) ==
    [NewTask(t.kind, t.uri, t.doc) EXCEPT
        !.ver = t.ver, !.pc = "done", !.res = res, !.dispatched = t.dispatched,
        !.ms = t.ms,
        !.text = IF res = "items" THEN t.text ELSE NoContent]

\* The end of a handler run: getModelCompletions stores the items under
\* document.version as it is now; validateTextDocument sends the
\* diagnostics; the catch blocks log a warning.
HandlerEnd(i, t, inTry) ==
    LET res == Outcome(t, inTry) IN
    /\ tasks' = Put(tasks, i, Done(t, res))
    /\ modelCache' =
          IF t.kind = "model"
          THEN MapSet(modelCache, t.uri,
                      [version |-> docs[t.doc].version,
                       items |-> IF res = "items" THEN t.text ELSE NoContent])
          ELSE modelCache
    /\ published' =
          IF t.kind = "diag" /\ res = "published"
          THEN MapSet(published, t.uri, IF t.out = "ok" THEN t.text ELSE Cleared)
          ELSE published
    /\ log' =
          IF t.err # NoError /\ t.kind = "model" THEN log \cup {"model-warn"}
          ELSE IF t.err # NoError /\ t.kind = "def" /\ inTry THEN log \cup {"def-warn"}
          ELSE log

\* resolveJarPath: the jar path, or undefined with a warning shown once.
resolveJarPath ==
    IF ~config.jar /\ ~jarWarningShown
    THEN warnings' = warnings + 1 /\ jarWarningShown' = TRUE
    ELSE UNCHANGED <<warnings, jarWarningShown>>

\* writeTempUmpleFile and the statements up to the next await.  Beside a
\* saved file the path is only computed and the text is read at once; for
\* any other buffer a temp directory is made first (mkdtemp).
BeginTemp(t) ==
    IF getDocumentDirectory(t.uri) # "null"
    THEN [t EXCEPT !.pc = "write", !.path = "file", !.text = Content(t.doc)]
    ELSE [t EXCEPT !.pc = "mkdtemp", !.path = "tmpdir"]

\* The temp file writeTempUmpleFile names beside a saved file:
\* .umple-lsp-<label>-<pid>-<Date.now()>.ump in the directory /ws, the
\* label being the kind of the run and the pid the same for all.
tempFileName(label, ms) == <<".umple-lsp-" \o label, ms>>

\* The temp file, temp directory or shadow directory of run i; mkdtemp
\* makes a directory no other call made.
PathOf(i, t) == IF t.path = "file" THEN tempFileName(t.kind, t.ms) ELSE <<t.path, i>>

\* The latest Date.now() that went into a temp file name, 0 when none did.
LastMs ==
    IF \A i \in TaskIds : tasks[i].ms = 0 THEN 0
    ELSE CHOOSE m \in { tasks[i].ms : i \in TaskIds } : \A i \in TaskIds : tasks[i].ms <= m

\* Date.now() as writeTempUmpleFile reads it for a buffer of URI u: the
\* millisecond of the latest temp file name or a later one (the clock does
\* not go back); 0 stands for the clock where no name is made of it.
DateNow(u) ==
    IF getDocumentDirectory(u) = "null" THEN {0}
    ELSE IF LastMs = 0 THEN {1}
    ELSE {LastMs, LastMs + 1}

TimerFireNoJarCheck(h) ==
    /\ h \in TimerIds
    /\ timers[h].state = "live"
    /\ Len(tasks) < MaxTasks
    /\ timers' = [timers EXCEPT ![h].state = "fired"]
    /\ pendingValidations' = MapDelete(pendingValidations, timers[h].uri)
    /\ resolveJarPath
    /\ \E ms \in DateNow(timers[h].uri) :
          Continue(Len(tasks) + 1,
                   BeginTemp([NewTask("diag", timers[h].uri, timers[h].doc)
                                 EXCEPT !.ms = ms]))
    /\ UNCHANGED <<call, docs, documents, events, config, serverProcess, spawnCount,
                   childState, fs>>

TimerFireKeepPending(h) ==
    /\ h \in TimerIds
    /\ timers[h].state = "live"
    /\ Len(tasks) < MaxTasks
    /\ timers' = [timers EXCEPT ![h].state = "fired"]
    /\ resolveJarPath
    /\ \E ms \in DateNow(timers[h].uri) :
          Continue(Len(tasks) + 1,
                   BeginTemp([NewTask("diag", timers[h].uri, timers[h].doc)
                                 EXCEPT !.ms = ms]))
    /\ UNCHANGED <<call, docs, documents, events, config, serverProcess, spawnCount,
                   childState, fs, pendingValidations>>

\* Timer callback: pendingValidations.delete(uri); validateTextDocument.
TimerFire(h) ==
    /\ h \in TimerIds
    /\ timers[h].state = "live"
    /\ Len(tasks) < MaxTasks
    /\ timers' = [timers EXCEPT ![h].state = "fired"]
    /\ pendingValidations' = MapDelete(pendingValidations, timers[h].uri)
    /\ resolveJarPath
    /\ LET i == Len(tasks) + 1
           t == NewTask("diag", timers[h].uri, timers[h].doc)
       IN IF ~config.jar
          THEN /\ tasks' = Put(tasks, i, Done(t, "nothing"))
               /\ UNCHANGED <<modelCache, published, log>>
          ELSE \E ms \in DateNow(t.uri) :
                  Continue(i, BeginTemp([t EXCEPT !.ms = ms]))
    /\ UNCHANGED <<call, docs, documents, events, config, serverProcess, spawnCount,
                   childState, fs>>

\* onCompletion up to the first await inside getModelCompletions.
OnCompletion(u) ==
    /\ Len(tasks) < MaxTasks
    /\ LET i == Len(tasks) + 1 IN
       IF u \notin DOMAIN documents
       THEN /\ tasks' = Put(tasks, i, Done(NewTask("model", u, 0), "keywords"))
            /\ UNCHANGED <<modelCache, published, log, warnings, jarWarningShown>>
       ELSE LET d == documents[u]
                t == NewTask("model", u, d)
            IN IF u \in DOMAIN modelCache /\ modelCache[u].version = docs[d].version
               THEN /\ tasks' = Put(tasks, i,
                         Done([t EXCEPT !.text = modelCache[u].items],
                              IF modelCache[u].items = NoContent
                              THEN "empty" ELSE "items"))
                    /\ UNCHANGED <<modelCache, published, log, warnings, jarWarningShown>>
               ELSE /\ resolveJarPath
                    /\ IF ~config.jar
                       THEN HandlerEnd(i, [t EXCEPT !.out = "nojson"], FALSE)
                       ELSE \E ms \in DateNow(u) :
                               Continue(i, BeginTemp([t EXCEPT !.ms = ms]))
    /\ UNCHANGED <<call, docs, documents, pendingValidations, timers, events, config,
                   serverProcess, spawnCount, childState, fs>>

\* resolveGoToDefSettings: the jar and classpath, or undefined with a
\* warning shown on every call.
resolveGoToDefSettings ==
    IF ~config.def
    THEN warnings' = warnings + 1 /\ UNCHANGED jarWarningShown
    ELSE UNCHANGED <<warnings, jarWarningShown>>

\* onDefinition up to its first await: createShadowWorkspace returns null
\* (no file path, or no workspace root holds it) or starts mkdtemp for the
\* shadow root; on null writeTempUmpleFile takes over.
OnDefinition(u) ==
    /\ Len(tasks) < MaxTasks
    /\ LET i == Len(tasks) + 1 IN
       IF u \notin DOMAIN documents
       THEN /\ tasks' = Put(tasks, i, Done(NewTask("def", u, 0), "empty"))
            /\ UNCHANGED <<warnings, jarWarningShown>>
       ELSE LET t == NewTask("def", u, documents[u]) IN
            /\ resolveGoToDefSettings
            /\ IF ~config.def
               THEN tasks' = Put(tasks, i, Done(t, "empty"))
               ELSE IF getDocumentFilePath(u) = "null"
                       \/ getWorkspaceRootForPath(getDocumentFilePath(u)) = "null"
                    THEN \E ms \in DateNow(u) :
                            tasks' = Put(tasks, i, BeginTemp([t EXCEPT !.ms = ms]))
                    ELSE tasks' = Put(tasks, i, [t EXCEPT !.pc = "shadowMk",
                                                          !.path = "shadow"])
    /\ UNCHANGED <<call, docs, documents, pendingValidations, timers, events, config,
                   serverProcess, spawnCount, childState, fs, modelCache,
                   published, log>>

\* ---- file-system steps --------------------------------------------------
\* fs.promises.mkdtemp of writeTempUmpleFile settles.  On success the text
\* of the document is read now and writeFile starts.
MkdtempDone(i, ok) ==
    /\ i \in TaskIds
    /\ tasks[i].pc = "mkdtemp"
    /\ LET t == tasks[i] IN
       IF ok
       THEN /\ fs' = fs \cup {PathOf(i, t)}
            /\ Continue(i, [t EXCEPT !.pc = "write", !.text = Content(t.doc)])
       ELSE /\ fs' = fs
            /\ HandlerEnd(i, [t EXCEPT !.err = "EFS"], FALSE)
    /\ UNCHANGED <<call, docs, documents, pendingValidations, timers, events, config,
                   jarWarningShown, warnings, serverProcess, spawnCount, childState>>

\* The Bridge dispatch starts: connectAndSend opens the first connection.
BeginDispatch(t) == [t EXCEPT !.pc = "conn", !.dispatched = TRUE]

\* fs.promises.writeFile(tempFile) settles.  It stands before the try
\* block, so a failure leaves the handler without cleanup; created tells
\* whether the failed write left a file behind.
WriteFileDone(i, ok, created) ==
    /\ i \in TaskIds
    /\ tasks[i].pc = "write"
    /\ ok => created
    /\ LET t == tasks[i] IN
       /\ fs' = IF created THEN fs \cup {PathOf(i, t)} ELSE fs
       /\ IF ok
          THEN Continue(i, IF t.kind = "def" THEN [t EXCEPT !.pc = "exec"]
                           ELSE BeginDispatch(t))
          ELSE HandlerEnd(i, [t EXCEPT !.err = "EFS"], FALSE)
    /\ UNCHANGED <<call, docs, documents, pendingValidations, timers, events, config,
                   jarWarningShown, warnings, serverProcess, spawnCount, childState>>

\* tempFileInfo.cleanup() in the finally block settles (rm with force);
\* then the handler ends with the result or the exception it held.
CleanupDone(i) ==
    /\ i \in TaskIds
    /\ tasks[i].pc = "rm"
    /\ fs' = fs \ {PathOf(i, tasks[i])}
    /\ HandlerEnd(i, tasks[i], TRUE)
    /\ UNCHANGED <<call, docs, documents, pendingValidations, timers, events, config,
                   jarWarningShown, warnings, serverProcess, spawnCount, childState>>

\* ---- the Bridge (sendUmpleSyncCommand) ----------------------------------
startUmpleSyncServerNoGuard ==
    /\ serverProcess' = TRUE
    /\ spawnCount' = spawnCount + 1
    /\ childState' = "up"

\* startUmpleSyncServer: nothing to do when a child process is stored;
\* otherwise spawn, store the child and resolve(true), all in one
\* synchronous run.
startUmpleSyncServer ==
    IF serverProcess
    THEN UNCHANGED <<serverProcess, spawnCount, childState>>
    ELSE /\ serverProcess' = TRUE
         /\ spawnCount' = spawnCount + 1
         /\ childState' = "up"

\* The value startUmpleSyncServer resolves to: true on the early return,
\* and true after spawn, because resolve(true) runs before any "error"
\* event of the child can call resolve(false).
started == TRUE

RetriesExhaustedLate(t) == t.tries - 1 >= MaxRetries + 1

RetriesExhaustedNever(t) == FALSE

\* The for loop of the retries ends when attempt reaches 5.
RetriesExhausted(t) == t.tries - 1 >= MaxRetries

\* sendUmpleSyncCommand returns (how = "result") or throws at once
\* (how = "abort"): its locals are gone, and the finally block of the
\* caller starts the cleanup.
Leave(t, how, out, e) ==
    [t EXCEPT !.pc = "rm", !.exit = how, !.out = out, !.err = e,
              !.tries = 0, !.firstErr = NoError]

\* The socket of the pending attempt ends with the server's output.
\* extractJson finds a JSON object in it (out = "ok") or none ("nojson").
ConnectEnd(i, out) ==
    /\ i \in TaskIds
    /\ tasks[i].pc = "conn"
    /\ Continue(i, Leave(tasks[i], "result", out, NoError))
    /\ UNCHANGED <<call, docs, documents, pendingValidations, timers, events, config,
                   jarWarningShown, warnings, serverProcess, spawnCount,
                   childState, fs>>

\* The pending attempt fails with error e (socket "error" event; an idle
\* timeout destroys the socket with an error that carries no code).
ConnectError(i, e) ==
    /\ i \in TaskIds
    /\ tasks[i].pc = "conn"
    /\ LET t == [tasks[i] EXCEPT !.tries = @ + 1] IN
       IF tasks[i].tries = 0
       THEN \* first attempt
            IF ~isConnectionError(e)
            THEN /\ Continue(i, Leave(t, "abort", "none", e))
                 /\ UNCHANGED <<serverProcess, spawnCount, childState>>
            ELSE /\ startUmpleSyncServer
                 /\ IF ~started
                    THEN Continue(i, Leave(t, "abort", "none", e))
                    ELSE Continue(i, [t EXCEPT !.pc = "conn", !.firstErr = e])
       ELSE \* a retry
            /\ IF ~isConnectionError(e)
               THEN Continue(i, Leave(t, "abort", "none", e))
               ELSE Continue(i, [t EXCEPT !.pc = "delay"])
            /\ UNCHANGED <<serverProcess, spawnCount, childState>>
    /\ UNCHANGED <<call, docs, documents, pendingValidations, timers, events, config,
                   jarWarningShown, warnings, fs>>

\* delay(150) after a failed retry settles: the next retry starts, or the
\* loop is over and the error of the first attempt is thrown.
DelayDone(i) ==
    /\ i \in TaskIds
    /\ tasks[i].pc = "delay"
    /\ LET t == tasks[i] IN
       IF RetriesExhausted(t)
       THEN Continue(i, [t EXCEPT !.pc = "rm", !.exit = "exhausted",
                                  !.err = t.firstErr])
       ELSE Continue(i, [t EXCEPT !.pc = "conn"])
    /\ UNCHANGED <<call, docs, documents, pendingValidations, timers, events, config,
                   jarWarningShown, warnings, serverProcess, spawnCount,
                   childState, fs>>

\* The "error" event of the spawned child (java missing, ...): logged;
\* its resolve(false) comes after resolve(true) and changes nothing.
SpawnError ==
    /\ childState = "up"
    /\ childState' = "failed"
    /\ log' = log \cup {"spawn-error"}
    /\ UNCHANGED <<call, docs, documents, pendingValidations, timers, events, config,
                   jarWarningShown, warnings, serverProcess, spawnCount,
                   tasks, fs, modelCache, published>>

\* The spawned service process exits; nothing in the server listens.
ServerExit ==
    /\ childState = "up"
    /\ childState' = "exited"
    /\ UNCHANGED <<call, docs, documents, pendingValidations, timers, events, config,
                   jarWarningShown, warnings, serverProcess, spawnCount,
                   tasks, fs, modelCache, published, log>>

\* ---- the shadow workspace and the external lookup -----------------------
\* The temp files that lie beside the file of FileUri now (named
\* .umple-lsp-<label>-<pid>-<ms>.ump).
TempFilesInRoot == { p \in fs : p[1] \notin {"tmpdir", "shadow", "a.ump"} }

\* The file /ws/a.ump of the project as rewritten by a writeFile of the
\* server.
WrittenThrough == <<"a.ump", 0>>

\* The directory mkdtemp makes for the shadow workspace of run i.
shadowRoot(i) == <<"tmp", "umple-shadow-def-" \o ToString(i)>>

\* The filePath createShadowWorkspace returns: the path of the document
\* relative to the workspace root, joined to the shadow root.
shadowFilePath(i, u) ==
    LET docPath == getDocumentFilePath(u)
        workspaceRoot == getWorkspaceRootForPath(docPath)
    IN join(shadowRoot(i), relative(Segments(workspaceRoot), Segments(docPath)))

\* mkdtemp of the shadow root settles.  createShadowWorkspace is called
\* before the try block of onDefinition: a failure leaves the handler.  On
\* success the walk of the workspace folder starts and reads its
\* directories.
ShadowMkdtempDone(i, ok) ==
    /\ i \in TaskIds
    /\ tasks[i].pc = "shadowMk"
    /\ LET t == tasks[i] IN
       IF ok
       THEN /\ fs' = fs \cup {PathOf(i, t)}
            /\ Continue(i, [t EXCEPT !.pc = "mirror",
                                     !.links = walkUmpleFiles,
                                     !.temps = TempFilesInRoot])
       ELSE /\ fs' = fs
            /\ HandlerEnd(i, [t EXCEPT !.err = "EFS"], FALSE)
    /\ UNCHANGED <<call, docs, documents, pendingValidations, timers, events, config,
                   jarWarningShown, warnings, serverProcess, spawnCount, childState>>

\* The loop of overlayOpenDocuments goes to its next document: the open
\* document of FileUri unless it is the one just written (a Map iterator
\* also visits an entry that was deleted and set again), else the loop is
\* over, createShadowWorkspace returns and execFile("java", ...) starts.
\* The document of UntitledUri has no file path and is passed over.
OverlayNext(t) ==
    IF FileUri \in DOMAIN documents /\ documents[FileUri] # t.odoc
    THEN [t EXCEPT !.pc = "overlay", !.odoc = documents[FileUri]]
    ELSE [t EXCEPT !.pc = "exec"]

\* mirrorWorkspaceUmpleFiles settles (readdir, mkdir, symlink, copyFile):
\* every file of the walk is linked or copied.
MirrorDone(i, ok) ==
    /\ i \in TaskIds
    /\ tasks[i].pc = "mirror"
    /\ IF ok
       THEN Continue(i, OverlayNext(tasks[i]))
       ELSE HandlerEnd(i, [tasks[i] EXCEPT !.err = "EFS"], FALSE)
    /\ UNCHANGED <<call, docs, documents, pendingValidations, timers, events, config,
                   jarWarningShown, warnings, serverProcess, spawnCount,
                   childState, fs>>

OverlayRmDoneKeepLink(i, ok) ==
    /\ i \in TaskIds
    /\ tasks[i].pc = "overlay"
    /\ LET t == tasks[i] IN
       IF ok
       THEN Continue(i, [t EXCEPT !.pc = "owrite",
                                  !.over = NoContent,
                                  !.text = Content(t.odoc)])
       ELSE HandlerEnd(i, [t EXCEPT !.err = "EFS"], FALSE)
    /\ UNCHANGED <<call, docs, documents, pendingValidations, timers, events, config,
                   jarWarningShown, warnings, serverProcess, spawnCount,
                   childState, fs>>

\* mkdir and rm(target, force) of the overlay settle: the link is gone, the
\* text of the document is read now and writeFile starts.
OverlayRmDone(i, ok) ==
    /\ i \in TaskIds
    /\ tasks[i].pc = "overlay"
    /\ LET t == tasks[i] IN
       IF ok
       THEN Continue(i, [t EXCEPT !.pc = "owrite",
                                  !.links = @ \ {AFile},
                                  !.over = NoContent,
                                  !.text = Content(t.odoc)])
       ELSE HandlerEnd(i, [t EXCEPT !.err = "EFS"], FALSE)
    /\ UNCHANGED <<call, docs, documents, pendingValidations, timers, events, config,
                   jarWarningShown, warnings, serverProcess, spawnCount,
                   childState, fs>>

\* writeFile(target, text) of the overlay settles; the loop goes on.
\* writeFile follows a symbolic link: a target that is still the link the
\* mirror made is written into the file of the project.
OverlayDone(i, ok) ==
    /\ i \in TaskIds
    /\ tasks[i].pc = "owrite"
    /\ LET t == tasks[i] IN
       IF ok
       THEN /\ fs' = IF AFile \in t.links THEN fs \cup {WrittenThrough} ELSE fs
            /\ Continue(i, OverlayNext([t EXCEPT !.over = t.text,
                                                 !.text = NoContent]))
       ELSE /\ fs' = fs
            /\ HandlerEnd(i, [t EXCEPT !.err = "EFS"], FALSE)
    /\ UNCHANGED <<call, docs, documents, pendingValidations, timers, events, config,
                   jarWarningShown, warnings, serverProcess, spawnCount,
                   childState>>

\* execFileAsync settles: a result with found true or not, or a rejection
\* (non-zero exit, the 5000 ms timeout, java missing).
ExecDone(i, r) ==
    /\ i \in TaskIds
    /\ tasks[i].pc = "exec"
    /\ IF r = "error"
       THEN Continue(i, [tasks[i] EXCEPT !.pc = "rm", !.err = "EEXEC"])
       ELSE Continue(i, [tasks[i] EXCEPT !.pc = "rm", !.out = r])
    /\ UNCHANGED <<call, docs, documents, pendingValidations, timers, events, config,
                   jarWarningShown, warnings, serverProcess, spawnCount,
                   childState, fs>>

\* ---- helper functions ---------------------------------------------------
\* Strings are sequences of characters, indexed from 0 as in the code.

\* All sequences over alphabet of length up to n.
SeqsUpTo(alphabet, n) == UNION { [1..k -> alphabet] : k \in 0..n }

\* String.prototype.slice(from, to) for 0 <= from, to <= length.
slice(str, from, to) == SubSeq(str, from + 1, to)

\* str has pat at index k.
HasAt(str, pat, k) ==
    /\ k + Len(pat) <= Len(str)
    /\ slice(str, k, k + Len(pat)) = pat

\* String.prototype.indexOf(pat, from): the least index from which pat
\* occurs, at or after from; -1 when there is none.
indexOf(str, pat, from) ==
    LET found == { k \in from..Len(str) : HasAt(str, pat, k) }
    IN IF found = {} THEN -1
       ELSE CHOOSE k \in found : \A j \in found : k <= j

\* The characters of a raw output: "E" is the word ERROR, "!" the
\* exclamation mark, "x" any other character.
RawChars == {"E", "!", "x"}

\* The markers "ERROR!!" and "!!ERROR".
OpenMarker == <<"E", "!", "!">>
CloseMarker == <<"!", "!", "E">>

RECURSIVE splitLoopStrict(_, _, _, _)
splitLoopStrict(raw, index, stdout, stderr) ==
    IF ~(index < Len(raw)) THEN [stdout |-> stdout, stderr |-> stderr]
    ELSE LET start == indexOf(raw, OpenMarker, index) IN
         IF start = -1
         THEN [stdout |-> stdout \o slice(raw, index, Len(raw)), stderr |-> stderr]
         ELSE LET end == indexOf(raw, CloseMarker, start + Len(OpenMarker)) IN
              IF end = -1
              THEN [stdout |-> stdout \o slice(raw, index, Len(raw)),
                    stderr |-> stderr]
              ELSE splitLoopStrict(raw, end + Len(CloseMarker),
                                   stdout \o slice(raw, index, start),
                                   stderr \o slice(raw, start + Len(OpenMarker), end))

splitUmpleSyncOutputStrict(raw) == splitLoopStrict(raw, 0, <<>>, <<>>)

\* The while loop of splitUmpleSyncOutput from index on, with the stdout
\* and stderr collected so far.
RECURSIVE splitLoop(_, _, _, _)
splitLoop(raw, index, stdout, stderr) ==
    IF ~(index < Len(raw)) THEN [stdout |-> stdout, stderr |-> stderr]
    ELSE LET start == indexOf(raw, OpenMarker, index) IN
         IF start = -1
         THEN [stdout |-> stdout \o slice(raw, index, Len(raw)), stderr |-> stderr]
         ELSE LET out == stdout \o slice(raw, index, start)
                  end == indexOf(raw, CloseMarker, start + Len(OpenMarker))
              IN IF end = -1
                 THEN [stdout |-> out,
                       stderr |-> stderr \o slice(raw, start + Len(OpenMarker), Len(raw))]
                 ELSE splitLoop(raw, end + Len(CloseMarker), out,
                                stderr \o slice(raw, start + Len(OpenMarker), end))

splitUmpleSyncOutput(raw) == splitLoop(raw, 0, <<>>, <<>>)

\* A call of splitUmpleSyncOutput(raw) returns.
SplitReturn ==
    /\ call.fn = "splitUmpleSyncOutput"
    /\ ~call.done
    /\ call' = [call EXCEPT !.done = TRUE, !.ret = splitUmpleSyncOutput(call.raw)]
    /\ UNCHANGED serverVars

\* The calls of splitUmpleSyncOutput to study: every raw output up to MaxRaw
\* characters.
SplitCalls ==
    { [fn |-> "splitUmpleSyncOutput", raw |-> r, done |-> FALSE,
       ret |-> [stdout |-> <<>>, stderr |-> <<>>]] : r \in SeqsUpTo(RawChars, MaxRaw) }

\* ---- detectContext -----------------------------------------------------
\* The characters of a buffer text.  A letter stands for itself; the words
\* of one letter below stand for the scope keywords, every other word is an
\* identifier.  LF is the line feed, QUOTE the double quote, BACKSLASH the
\* backslash, " " any character that is none of the others.
Letters == {"c", "t", "i", "a", "A", "s", "e", "m", "f", "p"}
Digits == {"1"}
LF == "LF"
QUOTE == "QUOTE"
BACKSLASH == "BACKSLASH"

\* The own keys of keywordContext with their values: class, trait,
\* interface, association, associationClass, statemachine, enum, mixset,
\* filter.
OwnKeys ==
    [c |-> "class", t |-> "class", i |-> "class", a |-> "association",
     A |-> "class", s |-> "statemachine", e |-> "enum", m |-> "top", f |-> "top"]

\* The word <<"p">> stands for a property name every object inherits from
\* Object.prototype (constructor, toString, valueOf, hasOwnProperty, ...).
InheritedKeys == {<<"p">>}

\* word in keywordContext: true for own and for inherited properties.
InKeywordContext(word) ==
    \/ Len(word) = 1 /\ word[1] \in DOMAIN OwnKeys
    \/ word \in InheritedKeys

\* keywordContext[word]: the context of an own key, a function of
\* Object.prototype for an inherited one, undefined otherwise.
keywordContext(word) ==
    IF Len(word) = 1 /\ word[1] \in DOMAIN OwnKeys THEN OwnKeys[word[1]]
    ELSE IF word \in InheritedKeys THEN "function"
    ELSE "undefined"

\* The text detectContext scans: the text before the cursor, cut to its
\* last 20000 characters.
window(text) ==
    IF Len(text) > ScanWindow
    THEN slice(text, Len(text) - ScanWindow, Len(text))
    ELSE text

\* The scanner before the first character; null is the empty word.
ScanStart ==
    [i |-> 0, stack |-> <<>>, lastKeyword |-> <<>>,
     inLineComment |-> FALSE, inBlockComment |-> FALSE, inString |-> FALSE]

\* The index after the word that starts at i: the first j > i at which the
\* text ends or has no word character.
RECURSIVE wordEnd(_, _)
wordEnd(text, j) ==
    IF j < Len(text) /\ text[j + 1] \in Letters \cup Digits
    THEN wordEnd(text, j + 1)
    ELSE j

\* One iteration of the for loop of detectContext (with its i += 1).
scanStep(text, sc) ==
    LET ch == text[sc.i + 1]
        next == IF sc.i + 1 < Len(text) THEN text[sc.i + 2] ELSE "undefined"
    IN
    IF sc.inLineComment
    THEN [sc EXCEPT !.inLineComment = (ch # LF), !.i = @ + 1]
    ELSE IF sc.inBlockComment
    THEN IF ch = "*" /\ next = "/"
         THEN [sc EXCEPT !.inBlockComment = FALSE, !.i = @ + 2]
         ELSE [sc EXCEPT !.i = @ + 1]
    ELSE IF sc.inString
    THEN IF ch = BACKSLASH THEN [sc EXCEPT !.i = @ + 2]
         ELSE IF ch = QUOTE THEN [sc EXCEPT !.inString = FALSE, !.i = @ + 1]
         ELSE [sc EXCEPT !.i = @ + 1]
    ELSE IF ch = "/" /\ next = "/"
    THEN [sc EXCEPT !.inLineComment = TRUE, !.i = @ + 2]
    ELSE IF ch = "/" /\ next = "*"
    THEN [sc EXCEPT !.inBlockComment = TRUE, !.i = @ + 2]
    ELSE IF ch = QUOTE
    THEN [sc EXCEPT !.inString = TRUE, !.i = @ + 1]
    ELSE IF ch \in Letters
    THEN LET j == wordEnd(text, sc.i + 1)
             word == slice(text, sc.i, j)
         IN [sc EXCEPT !.lastKeyword = IF InKeywordContext(word) THEN word ELSE @,
                       !.i = j]
    ELSE IF ch = "{"
    THEN [sc EXCEPT !.stack = Append(@, IF sc.lastKeyword # <<>>
                                           /\ keywordContext(sc.lastKeyword) # "undefined"
                                        THEN keywordContext(sc.lastKeyword)
                                        ELSE "block"),
                    !.lastKeyword = <<>>, !.i = @ + 1]
    ELSE IF ch = "}"
    THEN [sc EXCEPT !.stack = IF Len(@) > 0 THEN SubSeq(@, 1, Len(@) - 1) ELSE @,
                    !.lastKeyword = <<>>, !.i = @ + 1]
    ELSE [sc EXCEPT !.i = @ + 1]

\* The contexts the last loop of detectContext returns when it finds them.
Recognized == {"statemachine", "association", "class", "enum"}

contextOfInnermost(stack) == IF stack = <<>> THEN "top" ELSE stack[Len(stack)]

\* The last loop of detectContext: the innermost recognized entry of the
\* stack, or "top".
contextOf(stack) ==
    LET found == { k \in DOMAIN stack : stack[k] \in Recognized }
    IN IF found = {} THEN "top"
       ELSE stack[CHOOSE k \in found : \A j \in found : j <= k]

ScanStepStringAsCode ==
    /\ call.fn = "detectContext"
    /\ ~call.done
    /\ call.sc.i < Len(call.text)
    /\ call' = [call EXCEPT
                   !.sc = scanStep(call.text, [call.sc EXCEPT !.inString = FALSE])]
    /\ UNCHANGED serverVars

\* A call of detectContext does one iteration of its scan.
ScanStep ==
    /\ call.fn = "detectContext"
    /\ ~call.done
    /\ call.sc.i < Len(call.text)
    /\ call' = [call EXCEPT !.sc = scanStep(call.text, call.sc)]
    /\ UNCHANGED serverVars

\* The scan is over: detectContext returns.
ScanReturn ==
    /\ call.fn = "detectContext"
    /\ ~call.done
    /\ ~(call.sc.i < Len(call.text))
    /\ call' = [call EXCEPT !.done = TRUE, !.ret = contextOf(call.sc.stack)]
    /\ UNCHANGED serverVars

\* The characters of the texts to study: the keywords class, statemachine
\* and mixset, an inherited property name, the braces and a separator.
TextChars == {"c", "s", "m", "p", "{", "}", " "}

\* The calls of detectContext to study: every text up to MaxText characters
\* before the cursor.
DetectCalls ==
    { [fn |-> "detectContext", text |-> window(t), sc |-> ScanStart,
       done |-> FALSE, ret |-> "none"] : t \in SeqsUpTo(TextChars, MaxText) }

\* The characters of the texts with comments and strings: the slash, the
\* star, the double quote, the backslash, the line feed, the keyword class
\* and the braces.
LexChars == {"/", "*", QUOTE, BACKSLASH, LF, "c", "{", "}"}

\* The calls of detectContext on texts with comments and strings.
DetectLexCalls ==
    { [fn |-> "detectContext", text |-> window(t), sc |-> ScanStart,
       done |-> FALSE, ret |-> "none"] : t \in SeqsUpTo(LexChars, MaxText) }

\* ---- resolveDefinitionUri ----------------------------------------------
\* A path string: absolute or relative, with its segments.  NullPath is
\* null, undefined or the empty string.
Abs(segs) == [abs |-> TRUE, segs |-> segs]
Rel(segs) == [abs |-> FALSE, segs |-> segs]
NullPath == [abs |-> FALSE, segs |-> <<>>]

basename(p) == IF p.segs = <<>> THEN "" ELSE p.segs[Len(p.segs)]
dirname(p) == [p EXCEPT !.segs = SubSeq(@, 1, Len(@) - 1)]

\* The working directory of the server process.
Cwd == <<"srv">>

\* A URI: its scheme and its path.  document.uri of the two buffers.
DocumentUri(u) ==
    IF u = FileUri THEN [scheme |-> "file", path |-> <<"ws", "a.ump">>]
    ELSE [scheme |-> "untitled", path |-> <<"b">>]

\* pathToFileURL(p).toString(): a relative path is resolved against the
\* working directory.
pathToFileURL(p) ==
    [scheme |-> "file", path |-> IF p.abs THEN p.segs ELSE join(Cwd, p.segs)]

\* getDocumentFilePath as a path.
docPathOf(u) ==
    IF getDocumentFilePath(u) = "null" THEN NullPath
    ELSE Abs(Segments(getDocumentFilePath(u)))

\* resolveDefinitionUri(def, document, tempFile, shadowRoot, workspaceRoot).
resolveDefinitionUri(def, u, tempFile, shadowRootPath, workspaceRoot) ==
    LET docPath == docPathOf(u)
        docDir == IF docPath = NullPath THEN NullPath ELSE dirname(docPath)
        rawFile == def.file
        resolvedPath ==
            IF rawFile = NullPath THEN docPath
            ELSE IF rawFile.abs THEN rawFile
            ELSE IF docDir # NullPath THEN Abs(join(docDir.segs, rawFile.segs))
            ELSE rawFile
    IN
    IF resolvedPath = NullPath THEN DocumentUri(u)
    ELSE IF resolvedPath = tempFile \/ basename(resolvedPath) = basename(tempFile)
    THEN DocumentUri(u)
    ELSE IF docPath # NullPath /\ resolvedPath = docPath
    THEN DocumentUri(u)
    ELSE IF /\ shadowRootPath # NullPath
            /\ workspaceRoot # NullPath
            /\ isPathInside(resolvedPath.segs, shadowRootPath.segs)
    THEN pathToFileURL(Abs(join(workspaceRoot.segs,
                                relative(shadowRootPath.segs, resolvedPath.segs))))
    ELSE pathToFileURL(resolvedPath)

\* A call of resolveDefinitionUri returns.
ResolveReturn ==
    /\ call.fn = "resolveDefinitionUri"
    /\ ~call.done
    /\ call' = [call EXCEPT
                  !.done = TRUE,
                  !.ret = resolveDefinitionUri(call.def, call.uri, call.tempFile,
                                               call.shadowRoot, call.workspaceRoot)]
    /\ UNCHANGED serverVars

\* The paths below a directory a lookup result may name.
ResultFiles == { <<"a.ump">>, <<"lib", "c.ump">>, <<"lib", "a.ump">> }

\* The file fields of the results to study for run i: none, a file below
\* the shadow root, the workspace root or another directory, or a relative
\* path.
DefFiles(i) ==
    {NullPath}
    \cup { Abs(root \o f) : root \in {shadowRoot(i), <<"ws">>, <<"other">>},
                            f \in ResultFiles }
    \cup { Rel(f) : f \in ResultFiles }

\* The arguments onDefinition passes for run i: with a shadow workspace
\* (FileUri), with a temp file beside the document (FileUri inside no
\* root), with a temp file in a temp directory (UntitledUri).
DefinitionSetups(i) ==
    { [uri |-> FileUri, tempFile |-> Abs(shadowFilePath(i, FileUri)),
       shadowRoot |-> Abs(shadowRoot(i)), workspaceRoot |-> Abs(<<"ws">>)],
      [uri |-> FileUri,
       tempFile |-> Abs(<<"ws", ".umple-lsp-def-" \o ToString(i) \o ".ump">>),
       shadowRoot |-> NullPath, workspaceRoot |-> NullPath],
      [uri |-> UntitledUri,
       tempFile |-> Abs(<<"tmp", "umple-lsp-def-" \o ToString(i), "document.ump">>),
       shadowRoot |-> NullPath, workspaceRoot |-> NullPath] }

\* The calls of resolveDefinitionUri to study.
ResolveCalls ==
    { [fn |-> "resolveDefinitionUri", def |-> [found |-> TRUE, file |-> f],
       uri |-> a.uri, tempFile |-> a.tempFile, shadowRoot |-> a.shadowRoot,
       workspaceRoot |-> a.workspaceRoot, done |-> FALSE,
       ret |-> [scheme |-> "none", path |-> <<>>]] :
         f \in UNION { DefFiles(i) : i \in 1..MaxTasks },
         a \in UNION { DefinitionSetups(i) : i \in 1..MaxTasks } }

\* ---- parseUmpleJsonDiagnostics -----------------------------------------
\* A JavaScript number: NaN or an integer.
NaN == [nan |-> TRUE, val |-> 0]
Num(v) == [nan |-> FALSE, val |-> v]

\* An optional string field of a JSON record: undefined or a string.
Undefined == [def |-> FALSE, s |-> <<>>]
Str(s) == [def |-> TRUE, s |-> s]

DigitValue ==
    [ch \in {"0", "1", "2", "3", "4", "5", "6", "7", "8", "9"} |->
        CASE ch = "0" -> 0 [] ch = "1" -> 1 [] ch = "2" -> 2 [] ch = "3" -> 3
          [] ch = "4" -> 4 [] ch = "5" -> 5 [] ch = "6" -> 6 [] ch = "7" -> 7
          [] ch = "8" -> 8 [] OTHER -> 9]

RECURSIVE Decimal(_)
Decimal(str) ==
    IF str = <<>> THEN 0
    ELSE 10 * Decimal(SubSeq(str, 1, Len(str) - 1)) + DigitValue[str[Len(str)]]

\* Number(str): 0 for the empty string, the value of a string of digits,
\* NaN for a string with any other character in it.
Number(str) ==
    IF \A k \in DOMAIN str : str[k] \in DOMAIN DigitValue
    THEN Num(Decimal(str))
    ELSE NaN

\* Math.max(n - 1, 0): NaN when n is NaN.
lineNumberOf(n) ==
    IF n.nan THEN NaN ELSE Num(IF n.val - 1 > 0 THEN n.val - 1 ELSE 0)

\* The characters of a buffer text: LF, the carriage return, the blank and
\* "x" for any character that is no white space.
CR == "CR"
DocChars == {LF, CR, " ", "x"}
WhiteSpace == {LF, CR, " "}

\* text.split(/\r?\n/): the lines of the text, cur being the line read so
\* far; a carriage return just before a line feed is part of the
\* separator.
RECURSIVE splitLines(_, _)
splitLines(text, cur) ==
    IF text = <<>> THEN <<cur>>
    ELSE IF Head(text) = LF THEN <<cur>> \o splitLines(Tail(text), <<>>)
    ELSE IF Head(text) = CR /\ Len(text) > 1 /\ text[2] = LF
    THEN <<cur>> \o splitLines(SubSeq(text, 3, Len(text)), <<>>)
    ELSE splitLines(Tail(text), Append(cur, Head(text)))

\* lineText.search(/\S/): the index of the first character that is no white
\* space, -1 when there is none.
search(lineText) ==
    LET found == { k \in 0..(Len(lineText) - 1) : lineText[k + 1] \notin WhiteSpace }
    IN IF found = {} THEN -1 ELSE CHOOSE k \in found : \A j \in found : k <= j

\* The callback of parsed.results.map in parseUmpleJsonDiagnostics: the
\* diagnostic made of one result, the buffer holding text.
parseResult(result, text) ==
    LET lines == splitLines(text, <<>>)
        lineNumber == lineNumberOf(Number(IF result.line.def THEN result.line.s
                                          ELSE <<"1">>))
        lineText == IF lineNumber.nan \/ lineNumber.val >= Len(lines) THEN <<>>
                    ELSE lines[lineNumber.val + 1]
        firstNonSpace == search(lineText)
        startChar == IF firstNonSpace = -1 THEN 0 ELSE firstNonSpace
        severityValue == Number(IF result.severity.def THEN result.severity.s
                                ELSE <<"3">>)
        severity == IF ~severityValue.nan /\ severityValue.val > 2
                    THEN "Warning" ELSE "Error"
        code == IF result.errorCode.def /\ result.errorCode.s # <<>>
                THEN (IF severity = "Warning" THEN <<"W">> ELSE <<"E">>)
                     \o result.errorCode.s
                ELSE <<>>
        message == IF result.message.def THEN result.message.s ELSE <<>>
    IN [severity |-> severity, line |-> lineNumber, start |-> startChar,
        end |-> Len(lineText),
        message |-> IF code # <<>> /\ message # <<>>
                    THEN code \o <<":", " ">> \o message
                    ELSE code \o message]

\* A call of parseUmpleJsonDiagnostics with one result returns.
ParseReturn ==
    /\ call.fn = "parseUmpleJsonDiagnostics"
    /\ ~call.done
    /\ call' = [call EXCEPT !.done = TRUE,
                            !.ret = parseResult(call.result, call.text)]
    /\ UNCHANGED serverVars

\* The results to study: each field absent, empty, well-formed or not a
\* number.
ResultRecords ==
    [line : {Undefined} \cup { Str(l) : l \in {<<>>, <<"0">>, <<"1">>, <<"2">>,
                                                <<"3">>, <<"1", "0">>, <<"x">>} },
     severity : {Undefined} \cup { Str(l) : l \in {<<"1">>, <<"2">>, <<"3">>, <<"x">>} },
     errorCode : {Undefined, Str(<<>>), Str(<<"1", "2">>)},
     message : {Undefined, Str(<<>>), Str(<<"b", "a", "d">>)}]

\* The calls of parseUmpleJsonDiagnostics to study.
ParseCalls ==
    { [fn |-> "parseUmpleJsonDiagnostics", result |-> r, text |-> t,
       done |-> FALSE,
       ret |-> [severity |-> "none", line |-> NaN, start |-> 0, end |-> 0,
                message |-> <<>>]] :
         r \in ResultRecords, t \in SeqsUpTo(DocChars, MaxDoc) }

\* ---- onCompletion: filter and merge -----------------------------------
\* CompletionItemKind as it is printed into the key of an item.
KindKeyword == <<"1", "4">>
KindClass == <<"7">>
KindField == <<"5">>

\* The labels of the items to study; "A" is the upper-case "a".
Labels == { <<"a">>, <<"A", "b">>, <<"b">> }

\* String.prototype.toLowerCase.
toLowerCase(str) == [k \in DOMAIN str |-> IF str[k] = "A" THEN "a" ELSE str[k]]

\* String.prototype.startsWith.
startsWith(str, prefix) ==
    Len(prefix) <= Len(str) /\ SubSeq(str, 1, Len(prefix)) = prefix

\* filterCompletions(items, prefix).
filterCompletions(items, prefix) ==
    IF prefix = <<>> THEN items
    ELSE LET lowerPrefix == toLowerCase(prefix)
             Keep(item) == startsWith(toLowerCase(item.label), lowerPrefix)
         IN SelectSeq(items, Keep)

\* The key of an item in dedupeCompletions: kind, a colon, label.
keyOf(item) == item.kind \o <<":">> \o item.label

RECURSIVE dedupeLoopByLabel(_, _)
dedupeLoopByLabel(items, seen) ==
    IF items = <<>> THEN <<>>
    ELSE IF Head(items).label \in seen THEN dedupeLoopByLabel(Tail(items), seen)
    ELSE <<Head(items)>>
         \o dedupeLoopByLabel(Tail(items), seen \cup {Head(items).label})

dedupeCompletionsByLabel(items) == dedupeLoopByLabel(items, {})

\* The for loop of dedupeCompletions over the items left, seen being the
\* keys added so far.
RECURSIVE dedupeLoop(_, _)
dedupeLoop(items, seen) ==
    IF items = <<>> THEN <<>>
    ELSE IF keyOf(Head(items)) \in seen THEN dedupeLoop(Tail(items), seen)
    ELSE <<Head(items)>> \o dedupeLoop(Tail(items), seen \cup {keyOf(Head(items))})

dedupeCompletions(items) == dedupeLoop(items, {})

\* buildKeywordCompletions and the map of getClassNameCompletions: one item
\* of the given kind for each label.
itemsOf(labels, kind) == [k \in DOMAIN labels |-> [kind |-> kind, label |-> labels[k]]]

\* What onCompletion returns for an open document: keywords are the
\* keywords of the context, modelItems what getModelCompletions returned,
\* classNames the names scanned in the open documents.
completionResult(keywords, modelItems, classNames, prefix) ==
    dedupeCompletions(filterCompletions(itemsOf(keywords, KindKeyword), prefix)
                      \o filterCompletions(modelItems, prefix)
                      \o filterCompletions(itemsOf(classNames, KindClass), prefix))

\* A call of onCompletion returns its list.
CompletionReturn ==
    /\ call.fn = "onCompletion"
    /\ ~call.done
    /\ call' = [call EXCEPT !.done = TRUE,
                            !.ret = completionResult(call.keywords, call.modelItems,
                                                     call.classNames, call.prefix)]
    /\ UNCHANGED serverVars

\* The sequences of up to MaxItems different elements of a set: a Set of
\* keywords or class names, the items collected by addCompletion.
DistinctSeqs(S) ==
    { q \in SeqsUpTo(S, MaxItems) : \A i, j \in DOMAIN q : i # j => q[i] # q[j] }

\* The calls of onCompletion to study.
CompletionCalls ==
    { [fn |-> "onCompletion", keywords |-> kw, modelItems |-> mi, classNames |-> cn,
       prefix |-> px, done |-> FALSE, ret |-> <<>>] :
         kw \in DistinctSeqs(Labels),
         mi \in DistinctSeqs([kind : {KindClass, KindField}, label : Labels]),
         cn \in DistinctSeqs(Labels),
         px \in { <<>>, <<"a">>, <<"A">>, <<"a", "b">> } }

\* ---- onDefinition: the location ---------------------------------------
\* An optional number field of a lookup result: absent or an integer (the
\* lookup tool prints line and col as integers).
Absent == [def |-> FALSE, val |-> 0]
Given(n) == [def |-> TRUE, val |-> n]

coordOfNoFloor(field) == (IF field.def THEN field.val ELSE 1) - 1

\* Math.max((field ?? 1) - 1, 0).
coordOf(field) ==
    LET v == (IF field.def THEN field.val ELSE 1) - 1 IN IF v > 0 THEN v ELSE 0

\* The range of the Location onDefinition returns for a found result.
locationOf(def) ==
    LET defLine == coordOf(def.line)
        defCol == coordOf(def.col)
    IN [start |-> [line |-> defLine, character |-> defCol],
        end |-> [line |-> defLine, character |-> defCol]]

\* A call of onDefinition with a found result returns its location.
LocationReturn ==
    /\ call.fn = "onDefinition"
    /\ ~call.done
    /\ call' = [call EXCEPT !.done = TRUE, !.ret = locationOf(call.def)]
    /\ UNCHANGED serverVars

\* The found results to study: line and col absent or from -1 to MaxCoord.
LocationCalls ==
    LET Fields == {Absent} \cup { Given(n) : n \in (-1)..MaxCoord } IN
    { [fn |-> "onDefinition", def |-> [found |-> TRUE, line |-> l, col |-> c],
       done |-> FALSE, ret |-> locationOf([line |-> Absent, col |-> Absent])] :
         l \in Fields, c \in Fields }

\* ---- reading the output of the compiler ---------------------------------
\* An output is a sequence of tokens: "{" and "}", the member the reader
\* looks for ("m": a results array, an umpleClasses array, found with a
\* boolean), a blank and any other text ("x").
OutChars == {"{", "}", "m", " ", "x"}

\* String.prototype.trim.
RECURSIVE trim(_)
trim(str) ==
    IF str = <<>> THEN str
    ELSE IF Head(str) = " " THEN trim(Tail(str))
    ELSE IF str[Len(str)] = " " THEN trim(SubSeq(str, 1, Len(str) - 1))
    ELSE str

\* String.prototype.lastIndexOf(ch): the greatest index of ch, or -1.
lastIndexOf(str, ch) ==
    LET found == { k \in 0..(Len(str) - 1) : str[k + 1] = ch }
    IN IF found = {} THEN -1
       ELSE CHOOSE k \in found : \A j \in found : j <= k

\* extractJson(text): from the first "{" to the last "}", or null.
extractJson(text) ==
    LET start == indexOf(text, <<"{">>, 0)
        end == lastIndexOf(text, "}")
    IN IF start = -1 \/ end = -1 \/ end <= start THEN Undefined
       ELSE Str(slice(text, start, end + 1))

\* JSON.parse(text): blanks are allowed around every token; an object with
\* no member or with the member parses, anything else is a SyntaxError.
JSONparse(text) ==
    LET body == SelectSeq(text, LAMBDA c : c # " ") IN
    IF body = <<"{", "}">> THEN [ok |-> TRUE, members |-> {}]
    ELSE IF body = <<"{", "m", "}">> THEN [ok |-> TRUE, members |-> {"m"}]
    ELSE [ok |-> FALSE, members |-> {}]

\* What a piece of code ends with: a value, or an exception thrown.
Returned(v) == [threw |-> FALSE, value |-> v]
Thrown == [threw |-> TRUE, value |-> "none"]

\* parseUmpleJsonDiagnostics(stderr, document): [] ("none") or one
\* diagnostic for every result; the catch covers JSON.parse and the map.
parseUmpleJsonDiagnostics(stderr) ==
    LET trimmed == trim(stderr)
        jsonText == extractJson(trimmed)
    IN IF trimmed = <<>> THEN "none"
       ELSE IF ~jsonText.def THEN "none"
       ELSE LET parsed == JSONparse(jsonText.s) IN
            IF ~parsed.ok THEN "none"
            ELSE IF "m" \notin parsed.members THEN "none"
            ELSE "diagnostics"

\* validateTextDocument after the dispatch: parseUmpleDiagnostics stands in
\* a try with a finally and no catch.
validateTextDocument(stderr) == Returned(parseUmpleJsonDiagnostics(stderr))

\* generateModelJson after the dispatch: null, the parsed model, or the
\* SyntaxError of JSON.parse (try with a finally and no catch).
generateModelJson(stdout) ==
    LET jsonText == extractJson(stdout) IN
    IF ~jsonText.def THEN Returned("null")
    ELSE LET parsed == JSONparse(jsonText.s) IN
         IF ~parsed.ok THEN Thrown
         ELSE Returned(IF "m" \in parsed.members THEN "items" ELSE "none")

getModelCompletionsNoCatch(stdout) ==
    LET modelJson == generateModelJson(stdout) IN
    IF modelJson.threw THEN Thrown
    ELSE IF modelJson.value = "null" THEN Returned("none")
    ELSE modelJson

\* getModelCompletions after the dispatch: items stays [] when
\* generateModelJson returns null or throws; buildModelCompletions gives
\* the items of umpleClasses ?? [].
getModelCompletions(stdout) ==
    LET modelJson == generateModelJson(stdout) IN
    IF modelJson.threw THEN Returned("none")
    ELSE IF modelJson.value = "null" THEN Returned("none")
    ELSE modelJson

\* parseGoToDefOutput(stdout): null, or the parsed result (found true).
parseGoToDefOutput(stdout) ==
    LET trimmed == trim(stdout) IN
    IF trimmed = <<>> THEN "null"
    ELSE LET parsed == JSONparse(trimmed) IN
         IF ~parsed.ok THEN "null"
         ELSE IF "m" \notin parsed.members THEN "null"
         ELSE "found"

\* onDefinition after execFile: [] when def is null or not found.
onDefinition(stdout) ==
    IF parseGoToDefOutput(stdout) = "null" THEN Returned("none")
    ELSE Returned("location")

\* What the handler ends with for the output it reads.
handlerResult(handler, out) ==
    CASE handler = "validation" -> validateTextDocument(out)
      [] handler = "completion" -> getModelCompletions(out)
      [] OTHER -> onDefinition(out)

OutputReturn ==
    /\ call.fn = "readOutput"
    /\ ~call.done
    /\ call' = [call EXCEPT !.done = TRUE,
                            !.ret = handlerResult(call.handler, call.out)]
    /\ UNCHANGED serverVars

\* The outputs to study: every output of up to MaxOut tokens, read by each
\* of the three handlers.
OutputCalls ==
    { [fn |-> "readOutput", handler |-> h, out |-> o, done |-> FALSE,
       ret |-> Returned("none")] :
         h \in {"validation", "completion", "definition"},
         o \in SeqsUpTo(OutChars, MaxOut) }

\* ---- getCompletionPrefix ------------------------------------------------
\* The character classes of /[A-Za-z_][A-Za-z0-9_]*$/.
IdentStart == Letters \cup {"_"}
IdentChar == IdentStart \cup Digits

\* [A-Za-z0-9_]* from index j on: the index after the longest run.
RECURSIVE runEnd(_, _)
runEnd(str, j) ==
    IF j < Len(str) /\ str[j + 1] \in IdentChar THEN runEnd(str, j + 1) ELSE j

\* The pattern matches at index k: a first character of the first class,
\* then the run, then the end of the string.
MatchesAt(str, k) ==
    /\ k < Len(str)
    /\ str[k + 1] \in IdentStart
    /\ runEnd(str, k + 1) = Len(str)

getCompletionPrefixAnyStart(lineText) ==
    LET at == { k \in 0..Len(lineText) : runEnd(lineText, k) = Len(lineText) }
    IN slice(lineText, CHOOSE k \in at : \A j \in at : k <= j, Len(lineText))

\* getCompletionPrefix, given the text of the line before the cursor:
\* String.prototype.match returns the match at the least index, or null.
getCompletionPrefix(lineText) ==
    LET at == { k \in 0..Len(lineText) : MatchesAt(lineText, k) }
    IN IF at = {} THEN <<>>
       ELSE slice(lineText, CHOOSE k \in at : \A j \in at : k <= j, Len(lineText))

PrefixReturn ==
    /\ call.fn = "getCompletionPrefix"
    /\ ~call.done
    /\ call' = [call EXCEPT !.done = TRUE, !.ret = getCompletionPrefix(call.lineText)]
    /\ UNCHANGED serverVars

\* The characters of the lines to study: a letter, the underscore, a digit
\* and a blank.
LineChars == {"c", "_", "1", " "}

\* The calls of getCompletionPrefix to study: every line text of up to
\* MaxText characters before the cursor.
PrefixCalls ==
    { [fn |-> "getCompletionPrefix", lineText |-> t, done |-> FALSE, ret |-> <<>>] :
         t \in SeqsUpTo(LineChars, MaxText) }

\* ---- the system ---------------------------------------------------------
Next ==
    \/ \E u \in Uris : OnDidOpen(u)
    \/ \E u \in Uris : OnDidChange(u)
    \/ \E u \in Uris : OnDidClose(u)
    \/ \E h \in TimerIds : TimerFire(h)
    \/ \E u \in Uris : OnCompletion(u)
    \/ \E u \in Uris : OnDefinition(u)
    \/ \E i \in TaskIds, ok \in BOOLEAN : MkdtempDone(i, ok)
    \/ \E i \in TaskIds, ok \in BOOLEAN, created \in BOOLEAN : WriteFileDone(i, ok, created)
    \/ \E i \in TaskIds : CleanupDone(i)
    \/ \E i \in TaskIds, out \in {"ok", "nojson"} : ConnectEnd(i, out)
    \/ \E i \in TaskIds, e \in ErrorCodes : ConnectError(i, e)
    \/ \E i \in TaskIds : DelayDone(i)
    \/ SpawnError
    \/ ServerExit
    \/ \E i \in TaskIds, ok \in BOOLEAN : ShadowMkdtempDone(i, ok)
    \/ \E i \in TaskIds, ok \in BOOLEAN : MirrorDone(i, ok)
    \/ \E i \in TaskIds, ok \in BOOLEAN : OverlayRmDone(i, ok)
    \/ \E i \in TaskIds, ok \in BOOLEAN : OverlayDone(i, ok)
    \/ \E i \in TaskIds, r \in {"found", "notfound", "error"} : ExecDone(i, r)

Spec == Init /\ [][Next]_vars

SpecAnyConfig == InitAnyConfig /\ [][Next]_vars

\* The validation pipeline on its own: the editor notifications, the
\* timers and the validation runs, with no completion and no definition
\* request.  A timer of setTimeout(..., 300) whose delay is over is run by
\* the event loop as soon as the loop is free, and no handler holds the
\* loop for ever: a timer that stays live fires.
NextDebounce ==
    \/ \E u \in Uris : OnDidOpen(u)
    \/ \E u \in Uris : OnDidChange(u)
    \/ \E u \in Uris : OnDidClose(u)
    \/ \E h \in TimerIds : TimerFire(h)
    \/ \E i \in TaskIds, ok \in BOOLEAN : MkdtempDone(i, ok)
    \/ \E i \in TaskIds, ok \in BOOLEAN, created \in BOOLEAN : WriteFileDone(i, ok, created)
    \/ \E i \in TaskIds : CleanupDone(i)
    \/ \E i \in TaskIds, out \in {"ok", "nojson"} : ConnectEnd(i, out)
    \/ \E i \in TaskIds, e \in ErrorCodes : ConnectError(i, e)
    \/ \E i \in TaskIds : DelayDone(i)
    \/ SpawnError
    \/ ServerExit

SpecDebounce ==
    /\ Init
    /\ [][NextDebounce]_vars
    /\ \A h \in 1..MaxEvents : WF_vars(TimerFire(h))

\* The validation pipeline with its sockets and delays settling: the
\* socket of an attempt ends, fails or is destroyed by its idle timeout of
\* 2000 ms (socket.setTimeout), and delay(150) resolves.
SpecDispatch ==
    /\ Init
    /\ [][NextDebounce]_vars
    /\ \A i \in 1..MaxTasks :
          /\ WF_vars(\/ \E out \in {"ok", "nojson"} : ConnectEnd(i, out)
                     \/ \E e \in ErrorCodes : ConnectError(i, e))
          /\ WF_vars(DelayDone(i))

\* The helper functions on their own: a call with its arguments is given,
\* the function runs and returns.
InitFunctions ==
    /\ Constructed([jar : {TRUE}, def : {TRUE}, roots : {TRUE}])
    /\ \/ call \in SplitCalls
       \/ call \in DetectCalls
       \/ call \in DetectLexCalls
       \/ call \in ParseCalls
       \/ call \in CompletionCalls
       \/ call \in LocationCalls
       \/ call \in OutputCalls
       \/ call \in PrefixCalls
       \/ call \in ResolveCalls

NextFunctions ==
    \/ SplitReturn
    \/ ScanStep
    \/ ScanReturn
    \/ ResolveReturn
    \/ ParseReturn
    \/ CompletionReturn
    \/ LocationReturn
    \/ OutputReturn
    \/ PrefixReturn

SpecFunctions == InitFunctions /\ [][NextFunctions]_vars

\* ---- properties ---------------------------------------------------------
\* The connection-class errors of the design: refused, reset, broken pipe.
ConnectionClass == {"ECONNREFUSED", "ECONNRESET", "EPIPE"}

\* Timer h is the timer scheduled last for its URI.
LatestFor(h) == \A k \in TimerIds : timers[k].uri = timers[h].uri => k <= h

\* C1: only the most recently scheduled debounce timer of a buffer ever
\* fires: a timer that fires is live and is the latest one scheduled for its
\* URI, a cancelled timer stays cancelled, and scheduling a timer for a URI
\* leaves no earlier timer of that URI live.
C1_OnlyLatestTimerFires ==
    [][\A h \in TimerIds :
          /\ (timers[h].state # "fired" /\ timers'[h].state = "fired")
                => (timers[h].state = "live" /\ LatestFor(h))
          /\ timers[h].state = "cancelled" => timers'[h].state = "cancelled"
          /\ (Len(timers') > Len(timers) /\ timers'[Len(timers')].uri = timers[h].uri)
                => timers'[h].state # "live"]_vars

\* C1 witness: two timers were scheduled for one URI, the earlier one was
\* cancelled and the later one has fired.
C1_Witness ==
    \E h, k \in TimerIds :
        /\ h < k
        /\ timers[h].uri = timers[k].uri
        /\ timers[h].state = "cancelled"
        /\ timers[k].state = "fired"

\* C2 (as claimed): no two model-build dispatches are made for one buffer
\* at one version.
C2_OneDispatchPerVersion ==
    \A i, j \in TaskIds :
        (/\ i # j
         /\ tasks[i].kind = "model" /\ tasks[j].kind = "model"
         /\ tasks[i].dispatched /\ tasks[j].dispatched
         /\ tasks[i].doc = tasks[j].doc)
        => tasks[i].ver # tasks[j].ver

\* getModelCompletions would return the cached items for URI u now.
CacheHit(u) ==
    /\ u \in DOMAIN documents
    /\ u \in DOMAIN modelCache
    /\ modelCache[u].version = docs[documents[u]].version

\* No completion request was made for URI u at its current version.
NoRequestSinceEdit(u) ==
    ~\E i \in TaskIds :
        /\ tasks[i].kind = "model"
        /\ tasks[i].doc = documents[u]
        /\ tasks[i].ver = docs[documents[u]].version

\* C3 (as claimed): a change event removes the cache entry of its URI for
\* good, so while no completion request has been made since the last change
\* of a buffer the cache holds no items that the next request would return
\* without a rebuild: the first request after an edit never gets items
\* cached for the earlier version.
C3_EditForcesRebuild ==
    \A u \in DOMAIN documents :
        (docs[documents[u]].version > 1 /\ NoRequestSinceEdit(u))
            => ~(CacheHit(u) /\ modelCache[u].items # NoContent)

\* C4: the compiler service process is spawned at most once.
C4_SpawnedAtMostOnce == spawnCount <= 1

\* C4 witness: two dispatches are in their retries at the same time after
\* their first attempts failed, the one spawned process has failed to start
\* or has exited, and there was no second spawn.
C4_Witness ==
    /\ spawnCount = 1
    /\ childState \in {"failed", "exited"}
    /\ \E i, j \in TaskIds :
          /\ i # j
          /\ tasks[i].firstErr \in ConnectionClass
          /\ tasks[j].firstErr \in ConnectionClass

\* C5: when the first attempt of a dispatch fails with a connection-class
\* error (the start being reported as started) the command is tried again;
\* every retry that fails with a connection-class error is followed by the
\* delay; after the delay the next retry starts only while fewer than 5
\* retries were made; otherwise the dispatch has made 6 attempts and fails
\* with the error of its first attempt.  No dispatch makes more than 6
\* attempts.
C5_BoundedRetries ==
    [][\A i \in TaskIds :
          LET t == tasks[i]
              n == tasks'[i]
          IN /\ n.tries <= MaxRetries + 1
             /\ \A e \in ConnectionClass :
                   ConnectError(i, e) =>
                       IF t.tries = 0
                       THEN n.pc = "conn" /\ n.firstErr = e /\ n.tries = 1
                       ELSE n.pc = "delay" /\ n.firstErr = t.firstErr
             /\ (t.pc = "delay" /\ n.pc = "conn") => t.tries - 1 < MaxRetries
             /\ (t.pc = "delay" /\ n.pc # "delay" /\ n.pc # "conn")
                   => /\ n.pc = "rm"
                      /\ n.exit = "exhausted"
                      /\ t.tries = MaxRetries + 1
                      /\ t.firstErr \in ConnectionClass
                      /\ n.err = t.firstErr]_vars

\* C5 witness: a dispatch has used up its retries.
C5_Witness ==
    \E i \in TaskIds : tasks[i].exit = "exhausted" /\ tasks[i].tries = MaxRetries + 1

\* C6: an attempt that fails with an error that is not connection-class
\* ends the dispatch at once with that error, spawns nothing, and the
\* dispatch makes no further attempt.
C6_NonConnectionErrorAborts ==
    [][\A i \in TaskIds :
          /\ ConnectError(i, "EOTHER")
                => /\ tasks'[i].pc = "rm"
                   /\ tasks'[i].exit = "abort"
                   /\ tasks'[i].err = "EOTHER"
                   /\ spawnCount' = spawnCount
                   /\ serverProcess' = serverProcess
          /\ tasks[i].exit = "abort" => tasks'[i].pc \in {"rm", "done"}]_vars

\* C6 witness: a dispatch was aborted by such an error on its first
\* attempt, and no process was ever started.
C6_Witness ==
    \E i \in TaskIds :
        /\ tasks[i].exit = "abort"
        /\ tasks[i].err = "EOTHER"
        /\ spawnCount = 0

\* C7 (as claimed): the idle timeout of a socket attempt never ends the
\* dispatch at once; it leads to the service start and the retries.
C7_TimeoutIsRetried ==
    \A i \in TaskIds : ~(tasks[i].exit = "abort" /\ tasks[i].err = "TIMEOUT")

\* C8 (as claimed): when a definition request has ended, the shadow
\* directory made for it is gone.
C8_ShadowRemoved ==
    \A i \in TaskIds :
        (tasks[i].kind = "def" /\ tasks[i].pc = "done") => <<"shadow", i>> \notin fs

\* C9 (as claimed): when a validation run has ended, the temp file or temp
\* directory made for it is gone.
C9_TempRemoved ==
    \A i \in TaskIds :
        (tasks[i].kind = "diag" /\ tasks[i].pc = "done")
            => (tempFileName(tasks[i].kind, tasks[i].ms) \notin fs /\ <<"tmpdir", i>> \notin fs)

\* C10 (as claimed): no handler run ends with its failure leaving the
\* handler.
C10_NoFailureLeavesHandler ==
    \A i \in TaskIds : tasks[i].res # "threw"

\* C11 (as claimed): when the Bridge dispatch of a validation fails (the
\* command is aborted or its retries are used up), the run that ends the
\* validation writes the failure to the log and publishes nothing.
C11_DispatchFailureLogged ==
    [][\A i \in TaskIds :
          (/\ tasks[i].kind = "diag"
           /\ tasks[i].dispatched
           /\ tasks[i].pc = "rm"
           /\ tasks[i].err # NoError
           /\ tasks'[i].pc = "done")
          => (published' = published /\ "diag-warn" \in log')]_vars

\* Timer h is scheduled, has not fired and was not cancelled.
Live(h) == timers[h].state = "live"

\* C12: a URI has an entry in pendingValidations exactly while a timer of
\* that URI is live, every live timer is the one stored for its URI, and so
\* no URI has two live timers.
C12_OneLiveTimerPerUri ==
    /\ \A u \in Uris :
          (u \in DOMAIN pendingValidations)
             <=> (\E h \in TimerIds : timers[h].uri = u /\ Live(h))
    /\ \A h \in TimerIds :
          Live(h) => (/\ timers[h].uri \in DOMAIN pendingValidations
                      /\ pendingValidations[timers[h].uri] = h)
    /\ \A h, k \in TimerIds :
          (Live(h) /\ Live(k) /\ timers[h].uri = timers[k].uri) => h = k

\* C12 witness: the timer of one buffer has fired and left no entry in the
\* map while the timer of another buffer is live and stored.
C12_Witness ==
    \E h, k \in TimerIds :
        /\ timers[h].state = "fired"
        /\ timers[h].uri \notin DOMAIN pendingValidations
        /\ Live(k)
        /\ pendingValidations[timers[k].uri] = k

\* C13: a change event raises the version of the stored document in the
\* step that handles it, an open event stores the document in that step,
\* and every handler run that starts (a debounce timer firing, a completion
\* or a definition request) for an open buffer holds the stored document
\* and sees its current version; the text it reads at its start is the
\* current text.
C13_StoreUpdatedBeforeUse ==
    [][/\ \A u \in Uris :
             (OnDidChange(u) /\ u \in DOMAIN documents)
                => /\ documents'[u] = documents[u]
                   /\ docs'[documents[u]].version = docs[documents[u]].version + 1
       /\ \A u \in Uris :
             OnDidOpen(u) => /\ u \in DOMAIN documents'
                             /\ docs'[documents'[u]].version = 1
       /\ Len(tasks') > Len(tasks) =>
             LET n == tasks'[Len(tasks')] IN
             (n.uri \in DOMAIN documents)
                => /\ n.doc = documents[n.uri]
                   /\ n.ver = docs[documents[n.uri]].version
                   /\ n.pc = "write" => n.text = Content(documents[n.uri])]_vars

\* C13 witness: after an edit a debounce timer has fired and a completion
\* request was made, and both runs saw the edited version.
C13_Witness ==
    \E i, j \in TaskIds :
        /\ tasks[i].kind = "diag" /\ tasks[i].ver = 2
        /\ tasks[j].kind = "model" /\ tasks[j].ver = 2
        /\ tasks[i].doc = tasks[j].doc

\* C14: a change event ends no handler run and cancels no timer but the
\* pending one of its own URI; a validation whose dispatch returned still
\* publishes its diagnostics when its cleanup is over.
C14_EditCancelsOnlyTimer ==
    [][/\ \A u \in Uris :
             OnDidChange(u)
                => /\ tasks' = tasks
                   /\ \A h \in TimerIds :
                         (Live(h) /\ timers'[h].state # "live")
                            => /\ timers[h].uri = u
                               /\ pendingValidations[u] = h
                               /\ timers'[h].state = "cancelled"
       /\ \A i \in TaskIds :
             (/\ tasks[i].kind = "diag"
              /\ tasks[i].pc = "rm"
              /\ tasks[i].err = NoError
              /\ tasks'[i].pc = "done")
             => /\ tasks'[i].res = "published"
                /\ tasks[i].uri \in DOMAIN published'
                /\ published'[tasks[i].uri] =
                      (IF tasks[i].out = "ok" THEN tasks[i].text ELSE Cleared)]_vars

\* C14 witness: a validation dispatched before an edit publishes after the
\* validation started for the edit has published: the diagnostics shown
\* last are the ones of the older text.
C14_Witness ==
    \E i, j \in TaskIds :
        /\ i < j
        /\ tasks[i].kind = "diag" /\ tasks[j].kind = "diag"
        /\ tasks[i].doc = tasks[j].doc
        /\ tasks[i].ver < tasks[j].ver
        /\ tasks[i].res = "published" /\ tasks[j].res = "published"
        /\ tasks[i].uri \in DOMAIN published
        /\ published[tasks[i].uri] = <<tasks[i].doc, tasks[i].ver>>

\* C15: a close event removes the document of its URI from the store,
\* removes the model cache entry of the URI and sends an empty list of
\* diagnostics for the URI.
C15_CloseClears ==
    [][\A u \in Uris :
          OnDidClose(u) => /\ u \in DOMAIN documents
                           /\ u \notin DOMAIN documents'
                           /\ u \notin DOMAIN modelCache'
                           /\ published'[u] = Cleared]_vars

\* C15 witness: a buffer whose model items were cached and whose
\* diagnostics were published has been closed: no document, no cache entry,
\* empty diagnostics.
C15_Witness ==
    \E u \in Uris :
        /\ u \notin DOMAIN documents
        /\ u \notin DOMAIN modelCache
        /\ u \in DOMAIN published /\ published[u] = Cleared
        /\ \E i \in TaskIds :
              /\ tasks[i].kind = "model"
              /\ tasks[i].uri = u
              /\ tasks[i].res = "items"

\* The source files of the project outside the skipped directories:
\* /ws/a.ump and /ws/lib/c.ump.
SourceFiles == {AFile, [dirs |-> <<"lib">>, base |-> "c", ext |-> "ump"]}

\* The step in which createShadowWorkspace returns to run i: the mirror or
\* the last write of the overlay has settled and the lookup starts.
ShadowBuilt(i) ==
    /\ tasks[i].pc \in {"mirror", "owrite"}
    /\ tasks'[i].pc = "exec"

\* The path returned for run i is below the shadow root at the place the
\* document has below the workspace root.
ReturnedPathMirrorsDocument(i) ==
    LET u == tasks[i].uri
        filePath == shadowFilePath(i, u)
    IN /\ isPathInside(filePath, shadowRoot(i))
       /\ relative(shadowRoot(i), filePath)
             = relative(Segments(getWorkspaceRootForPath(getDocumentFilePath(u))),
                        Segments(getDocumentFilePath(u)))

\* C16 (as claimed): when the shadow workspace has been built, every source
\* file outside the skipped directories that has an open buffer holds the
\* text the buffer has now, every other one is a link to or a copy of the
\* file on disk, and the returned path is the shadow path of the document.
C16_ShadowHoldsBufferText ==
    [][\A i \in TaskIds :
          ShadowBuilt(i) =>
             LET n == tasks'[i] IN
             /\ \A f \in SourceFiles :
                   IF f = AFile /\ FileUri \in DOMAIN documents
                   THEN n.over = Content(documents[FileUri]) /\ f \notin n.links
                   ELSE f \in n.links /\ (f = AFile => n.over = NoContent)
             /\ ReturnedPathMirrorsDocument(i)]_vars

\* C16 (amended): when the shadow workspace has been built, every source
\* file outside the skipped directories is a link to or a copy of the file
\* on disk unless the overlay wrote it.  The overlay wrote the shadow file of
\* every buffer that was open when its loop came to it, with the text the
\* buffer had when the overlay read it: the text of the buffer that is open
\* now (its current version, or an earlier one when an edit came while the
\* write was pending), or the text of a buffer closed since.  A file with no
\* overlay has no open buffer.  No file of a skipped directory and no file
\* that is not a source file is in the tree.  The returned path is the
\* shadow path of the document.
C16_ShadowHoldsTextRead ==
    [][\A i \in TaskIds :
          /\ (tasks[i].pc = "overlay" /\ tasks'[i].pc = "owrite")
                => tasks'[i].text = Content(tasks[i].odoc)
          /\ ShadowBuilt(i) =>
                LET n == tasks'[i] IN
                /\ \A f \in SourceFiles \ {AFile} : f \in n.links
                /\ n.links \subseteq SourceFiles
                /\ IF n.over = NoContent
                   THEN AFile \in n.links /\ FileUri \notin DOMAIN documents
                   ELSE /\ AFile \notin n.links
                        /\ n.over[1] \in DOMAIN docs
                        /\ docs[n.over[1]].uri = FileUri
                        /\ n.over[2] <= docs[n.over[1]].version
                        /\ FileUri \in DOMAIN documents
                              => n.over[1] = documents[FileUri]
                /\ ReturnedPathMirrorsDocument(i)]_vars

\* C16 witness: a shadow workspace was built while the buffer was open and
\* edited: the shadow file of the buffer holds the text of the edit, the
\* other source file is linked, and the lookup is running.
C16_Witness ==
    \E i \in TaskIds :
        /\ tasks[i].pc = "exec"
        /\ tasks[i].path = "shadow"
        /\ FileUri \in DOMAIN documents
        /\ tasks[i].over = Content(documents[FileUri])
        /\ tasks[i].over[2] = 2
        /\ [dirs |-> <<"lib">>, base |-> "c", ext |-> "ump"] \in tasks[i].links

\* createShadowWorkspace returns null for the buffer: its URI is no file
\* path, or the path is inside no workspace root.
NoShadowFor(u) ==
    \/ getDocumentFilePath(u) = "null"
    \/ getWorkspaceRootForPath(getDocumentFilePath(u)) = "null"

\* C18 (as claimed): a definition request for a buffer with no file path or
\* under no project root makes no shadow directory, and when the request
\* has ended the temp file (or the temp directory that held it) is gone.
C18_FallbackTempFileRemoved ==
    \A i \in TaskIds :
        (tasks[i].kind = "def" /\ NoShadowFor(tasks[i].uri))
            => /\ <<"shadow", i>> \notin fs
               /\ tasks[i].pc = "done"
                     => (tempFileName(tasks[i].kind, tasks[i].ms) \notin fs /\ <<"tmpdir", i>> \notin fs)

\* C17 (as claimed): for a found result whose file lies inside the shadow
\* root and is not the shadow file of the requesting buffer, the URI
\* returned is the file at the same relative path below the workspace root:
\* it is not inside the shadow root and it is not the URI of the buffer.
C17_ShadowResultMapsToRealFile ==
    (/\ call.fn = "resolveDefinitionUri"
     /\ call.done
     /\ call.shadowRoot # NullPath
     /\ call.def.file.abs
     /\ isPathInside(call.def.file.segs, call.shadowRoot.segs)
     /\ call.def.file # call.tempFile)
    => /\ call.ret.scheme = "file"
       /\ call.ret.path
             = call.workspaceRoot.segs
                  \o SubSeq(call.def.file.segs, Len(call.shadowRoot.segs) + 1,
                            Len(call.def.file.segs))
       /\ ~isPathInside(call.ret.path, call.shadowRoot.segs)
       /\ call.ret # DocumentUri(call.uri)

\* The demultiplexing of raw from index pos on, read character by
\* character: outside a pair an opening marker is dropped and the text
\* after it is inside; inside a pair a closing marker is dropped and the
\* text after it is outside; any other character goes to stdout outside
\* and to stderr inside.
RECURSIVE Demux(_, _, _)
Demux(raw, pos, inside) ==
    IF pos >= Len(raw) THEN [stdout |-> <<>>, stderr |-> <<>>]
    ELSE IF ~inside /\ HasAt(raw, OpenMarker, pos)
    THEN Demux(raw, pos + Len(OpenMarker), TRUE)
    ELSE IF inside /\ HasAt(raw, CloseMarker, pos)
    THEN Demux(raw, pos + Len(CloseMarker), FALSE)
    ELSE LET rest == Demux(raw, pos + 1, inside) IN
         IF inside
         THEN [stdout |-> rest.stdout, stderr |-> <<raw[pos + 1]>> \o rest.stderr]
         ELSE [stdout |-> <<raw[pos + 1]>> \o rest.stdout, stderr |-> rest.stderr]

\* C19: splitUmpleSyncOutput returns as stdout the text outside the marker
\* pairs and as stderr the text between each opening marker and its next
\* closing marker, in order and without the markers; when the raw output
\* has an opening marker and no closing marker after it, stdout is the text
\* before the first opening marker and stderr all the text after it.
C19_SplitDemultiplexes ==
    (call.fn = "splitUmpleSyncOutput" /\ call.done)
    => /\ call.ret = Demux(call.raw, 0, FALSE)
       /\ LET start == indexOf(call.raw, OpenMarker, 0) IN
          (/\ start # -1
           /\ \A k \in (start + Len(OpenMarker))..Len(call.raw) :
                 ~HasAt(call.raw, CloseMarker, k))
          => /\ call.ret.stdout = slice(call.raw, 0, start)
             /\ call.ret.stderr
                   = slice(call.raw, start + Len(OpenMarker), Len(call.raw))

\* C19 witness: a raw output with text before a marker pair, text inside it
\* and text after it has been split.
C19_Witness ==
    /\ call.fn = "splitUmpleSyncOutput"
    /\ call.done
    /\ call.raw = <<"x", "E", "!", "!", "x", "!", "!", "E">>
    /\ call.ret = [stdout |-> <<"x">>, stderr |-> <<"x">>]

\* The words of a text with no comment and no string: the runs of letters.
WordStartsAt(text, p) ==
    /\ text[p] \in Letters
    /\ p = 1 \/ text[p - 1] \notin Letters

WordAt(text, p) ==
    LET last == CHOOSE q \in p..Len(text) :
                    /\ \A k \in p..q : text[k] \in Letters
                    /\ q = Len(text) \/ text[q + 1] \notin Letters
    IN SubSeq(text, p, last)

\* The scope keywords of the design: class, trait, interface, association,
\* associationClass, statemachine, enum, mixset, filter.
ScopeKeyword(word) == Len(word) = 1 /\ word[1] \in DOMAIN OwnKeys

\* The keyword pending at the brace at p: the last scope keyword before p
\* with no brace between it and p.
PendingKeywordAt(text, p) ==
    LET starts == { q \in 1..(p - 1) :
                      /\ WordStartsAt(text, q)
                      /\ ScopeKeyword(WordAt(text, q))
                      /\ \A k \in q..(p - 1) : text[k] \notin {"{", "}"} }
    IN IF starts = {} THEN <<>>
       ELSE WordAt(text, CHOOSE q \in starts : \A r \in starts : r <= q)

\* The scope the opening brace at p opens.
ScopeAt(text, p) ==
    IF PendingKeywordAt(text, p) = <<>> THEN "block"
    ELSE OwnKeys[PendingKeywordAt(text, p)[1]]

BraceCount(text, ch, from, to) == Cardinality({ k \in from..to : text[k] = ch })

\* The opening brace at p is not closed in the text.
Unclosed(text, p) ==
    /\ text[p] = "{"
    /\ \A q \in (p + 1)..Len(text) :
          BraceCount(text, "}", p + 1, q) <= BraceCount(text, "{", p + 1, q)

\* The innermost open scope that is class, state machine, association or
\* enum; top-level when there is none.
Classification(text) ==
    LET open == { p \in 1..Len(text) :
                    Unclosed(text, p) /\ ScopeAt(text, p) \in Recognized }
    IN IF open = {} THEN "top"
       ELSE ScopeAt(text, CHOOSE p \in open : \A q \in open : q <= p)

\* The text has no comment and no string.
CodeOnly(text) ==
    \A k \in DOMAIN text : text[k] \in Letters \cup {"{", "}", " "}

\* C20 (as claimed): for a text with no comment and no string detectContext
\* returns the innermost open scope that is class, state machine,
\* association or enum, the scope of a brace being the one of the scope
\* keyword pending at it and generic when none is pending, and top-level
\* when there is no such scope.
C20_InnermostRecognizedScope ==
    (call.fn = "detectContext" /\ call.done /\ CodeOnly(call.text))
    => call.ret = Classification(call.text)

\* The five classifications of the cursor position.
Classifications == {"top", "class", "statemachine", "association", "enum"}

\* The scanner of the call is at a closing brace in code (in no comment and
\* no string) with an empty scope stack.
AtStrayClosingBrace ==
    /\ call.sc.i < Len(call.text)
    /\ call.text[call.sc.i + 1] = "}"
    /\ ~call.sc.inLineComment /\ ~call.sc.inBlockComment /\ ~call.sc.inString
    /\ call.sc.stack = <<>>

\* C21: a closing brace met while the scope stack is empty leaves the stack
\* empty and the scan goes on to the next character; for every input, with
\* unbalanced braces or a comment or string not ended, every iteration of
\* the scan moves forward and stays within one index past the end of the
\* text, so the scan ends, and what it returns is one of the five
\* classifications (never a generic block, never anything else).
C21_ScanEndsClassified ==
    [][ (call.fn = "detectContext" /\ ~call.done)
        => /\ call'.fn = "detectContext"
           /\ call'.text = call.text
           /\ IF call.sc.i < Len(call.text)
              THEN /\ ~call'.done
                   /\ call'.sc.i > call.sc.i
                   /\ call'.sc.i <= Len(call.text) + 1
                   /\ AtStrayClosingBrace
                         => /\ call'.sc.stack = <<>>
                            /\ call'.sc.i = call.sc.i + 1
              ELSE /\ call'.done
                   /\ call'.ret \in Classifications ]_vars

\* C21 witness: the text '}c{/*' has been scanned: a closing brace on the
\* empty stack, then an open class body, then a block comment not ended;
\* the call returned class.
C21_Witness ==
    /\ call.fn = "detectContext"
    /\ call.done
    /\ call.text = <<"}", "c", "{", "/", "*">>
    /\ call.sc.inBlockComment
    /\ call.ret = "class"

\* The positions of the line feeds of a text, and line n of it (n from 0):
\* the characters after line feed n up to the next line feed, without a
\* carriage return that stands just before that line feed; the empty line
\* when the text has no line n.
LineFeeds(text) == { k \in DOMAIN text : text[k] = LF }

BufferLine(text, n) ==
    LET before == { k \in LineFeeds(text) :
                      Cardinality({ j \in LineFeeds(text) : j <= k }) = n }
        first == IF n = 0 THEN 1 ELSE (CHOOSE k \in before : TRUE) + 1
        after == { k \in LineFeeds(text) : k >= first }
        stop == IF after = {} THEN Len(text) + 1
                ELSE CHOOSE k \in after : \A j \in after : k <= j
        last == IF stop <= Len(text) /\ stop - 1 >= first /\ text[stop - 1] = CR
                THEN stop - 2 ELSE stop - 1
    IN IF n > 0 /\ before = {} THEN <<>> ELSE SubSeq(text, first, last)

\* The record has a line, a severity, an error code and a message text.
FullRecord(r) ==
    /\ r.line.def /\ r.line.s # <<>>
    /\ r.severity.def
    /\ r.errorCode.def /\ r.errorCode.s # <<>>
    /\ r.message.def /\ r.message.s # <<>>

\* C22 (as claimed): the diagnostic made of a structured error record is on
\* the line index record line minus 1, floored at 0 (so a line index that
\* is a number and not negative), spans from the first character of that
\* buffer line that is no white space to the end of that line, has warning
\* severity when the numeric severity is above 2 and error severity
\* otherwise, and its message is E or W (by the severity), the error code,
\* ": " and the message text.
C22_DiagnosticOfRecord ==
    (call.fn = "parseUmpleJsonDiagnostics" /\ call.done /\ FullRecord(call.result))
    => LET r == call.result
           d == call.ret
           line == Number(r.line.s)
           sev == Number(r.severity.s)
           lineText == BufferLine(call.text, d.line.val)
       IN /\ ~d.line.nan
          /\ d.line.val >= 0
          /\ ~line.nan => d.line.val = IF line.val - 1 > 0 THEN line.val - 1 ELSE 0
          /\ d.end = Len(lineText)
          /\ \A k \in 1..Len(lineText) :
                (lineText[k] \notin WhiteSpace
                 /\ \A j \in 1..(k - 1) : lineText[j] \in WhiteSpace)
                => d.start = k - 1
          /\ d.severity = IF ~sev.nan /\ sev.val > 2 THEN "Warning" ELSE "Error"
          /\ d.message = (IF d.severity = "Warning" THEN <<"W">> ELSE <<"E">>)
                         \o r.errorCode.s \o <<":", " ">> \o r.message.s

\* The items of a completion call before any filter, in the order
\* keywords, model items, scanned class names.
Candidates ==
    itemsOf(call.keywords, KindKeyword) \o call.modelItems
    \o itemsOf(call.classNames, KindClass)

\* The label starts with the prefix, letters compared without case.
StartsWithNoCase(label, prefix) ==
    /\ Len(prefix) <= Len(label)
    /\ \A k \in DOMAIN prefix :
          \/ label[k] = prefix[k]
          \/ {label[k], prefix[k]} = {"a", "A"}

\* The index of the first occurrence of an item in a sequence.
FirstIndex(q, x) == CHOOSE k \in DOMAIN q : q[k] = x /\ \A j \in 1..(k - 1) : q[j] # x

\* C23: the list a completion request returns has no two items with the
\* same kind and label; it holds the first occurrence of each candidate, in
\* the order keywords, model items, scanned class names; with a non-empty
\* prefix it holds exactly the candidates whose label starts with the prefix
\* without regard to case, and with the empty prefix every candidate.
C23_MergedCompletions ==
    (call.fn = "onCompletion" /\ call.done)
    => LET ret == call.ret
           Elements(q) == { q[k] : k \in DOMAIN q }
       IN /\ \A i, j \in DOMAIN ret :
                (ret[i].kind = ret[j].kind /\ ret[i].label = ret[j].label) => i = j
          /\ Elements(ret)
                = { x \in Elements(Candidates) :
                      call.prefix = <<>> \/ StartsWithNoCase(x.label, call.prefix) }
          /\ \A i, j \in DOMAIN ret :
                i < j => FirstIndex(Candidates, ret[i]) < FirstIndex(Candidates, ret[j])
          /\ call.prefix # <<>>
                => \A k \in DOMAIN ret : StartsWithNoCase(ret[k].label, call.prefix)
          /\ call.prefix = <<>> => Elements(ret) = Elements(Candidates)

\* C23 witness: with the prefix "a", the keyword a, the model items class
\* Ab and field b and the scanned class name Ab, the list returned is the
\* keyword a and the class Ab once.
C23_Witness ==
    /\ call.fn = "onCompletion"
    /\ call.done
    /\ call.prefix = <<"a">>
    /\ call.keywords = << <<"a">> >>
    /\ call.modelItems = << [kind |-> KindClass, label |-> <<"A", "b">>],
                            [kind |-> KindField, label |-> <<"b">>] >>
    /\ call.classNames = << <<"A", "b">> >>
    /\ call.ret = << [kind |-> KindKeyword, label |-> <<"a">>],
                     [kind |-> KindClass, label |-> <<"A", "b">>] >>

\* C24 (as claimed): while a required tool path is unset or not found, its
\* configuration warning is shown at most once, however many validation,
\* completion and definition requests follow: no more warnings are shown
\* than tools are missing.
C24_WarnedOncePerTool ==
    warnings <= (IF config.jar THEN 0 ELSE 1) + (IF config.def THEN 0 ELSE 1)

\* Run i has left nothing on disk.
NothingOnDisk(i) ==
    /\ tempFileName(tasks[i].kind, tasks[i].ms) \notin fs
    /\ <<"tmpdir", i>> \notin fs
    /\ <<"shadow", i>> \notin fs

\* C25: while the UmpleSync jar is unset or not found, a validation
\* publishes nothing and a model build yields no model items, and neither
\* makes a temp file or directory, opens a connection or starts a process;
\* while the Umple jar or the lookup classpath is unset or not found, a
\* definition request returns no location and makes no temp file and no
\* shadow directory and starts no process.
C25_DisabledWithoutSideEffects ==
    /\ ~config.jar
          => /\ \A i \in TaskIds :
                   tasks[i].kind \in {"diag", "model"}
                   => /\ tasks[i].pc = "done"
                      /\ tasks[i].res \in {"nothing", "empty", "keywords"}
                      /\ ~tasks[i].dispatched
                      /\ NothingOnDisk(i)
             /\ \A u \in DOMAIN published : published[u] = Cleared
             /\ \A u \in DOMAIN modelCache : modelCache[u].items = NoContent
             /\ spawnCount = 0
             /\ ~serverProcess
    /\ ~config.def
          => \A i \in TaskIds :
                tasks[i].kind = "def"
                => /\ tasks[i].pc = "done"
                   /\ tasks[i].res = "empty"
                   /\ NothingOnDisk(i)

\* C25 witness: with no tool configured, a model build and a definition
\* request for open buffers have ended.
C25_Witness ==
    /\ ~config.jar
    /\ ~config.def
    /\ \E i, j \in TaskIds :
          /\ tasks[i].kind = "model" /\ tasks[i].doc # 0
          /\ tasks[j].kind = "def" /\ tasks[j].doc # 0

\* C26: the location returned for a found lookup result has the line of
\* the result minus 1 and the column of the result minus 1, each not below
\* 0, and its start position is its end position.
C26_ZeroWidthLocation ==
    (call.fn = "onDefinition" /\ call.done)
    => LET loc == call.ret
           line == call.def.line
           col == call.def.col
       IN /\ loc.start = loc.end
          /\ loc.start.line >= 0
          /\ loc.start.character >= 0
          /\ (line.def /\ line.val >= 1) => loc.start.line = line.val - 1
          /\ (line.def /\ line.val < 1) => loc.start.line = 0
          /\ (col.def /\ col.val >= 1) => loc.start.character = col.val - 1
          /\ (col.def /\ col.val < 1) => loc.start.character = 0

\* C26 witness: the result at line 3, column 0 gave the location at line
\* 2, character 0.
C26_Witness ==
    /\ call.fn = "onDefinition"
    /\ call.done
    /\ call.def.line = Given(3)
    /\ call.def.col = Given(0)
    /\ call.ret.start = [line |-> 2, character |-> 0]

\* Run i was a completion request answered from the model cache with
\* model items.
ServedFromCache(i) ==
    /\ tasks[i].kind = "model"
    /\ tasks[i].pc = "done"
    /\ tasks[i].res = "items"
    /\ ~tasks[i].dispatched

\* C27 (as claimed): the model items a completion request gets from the
\* cache were built from the text the buffer of the request holds at the
\* version of the request, over any interleaving of completion requests,
\* edits, close and re-open of the URI.
C27_CacheServesRequestText ==
    \A i \in TaskIds :
        ServedFromCache(i) => tasks[i].text = <<tasks[i].doc, tasks[i].ver>>

\* C28 (as claimed): after a close event for a URI no diagnostics other
\* than the empty set are published for it until it is opened again: while
\* a URI is not open, the last diagnostics sent for it are the empty set of
\* the close, whatever timer was pending and whatever validation was in
\* flight at the close.
C28_NoDiagnosticsAfterClose ==
    \A u \in DOMAIN published :
        u \notin DOMAIN documents => published[u] = Cleared

\* C29 (as claimed): the model cache holds entries only for URIs of open
\* buffers; a model build that finishes after its buffer was closed leaves
\* no entry.
C29_CacheOnlyForOpenBuffers ==
    \A u \in DOMAIN modelCache : u \in DOMAIN documents

\* The temp file of run i has been written and the run has not removed it.
HoldsTempFile(i) ==
    /\ tasks[i].path = "file"
    /\ tasks[i].pc \in {"conn", "delay", "exec", "rm"}

\* C30 (as claimed): any two requests whose temp files exist at the same
\* time use different temp file paths, also when they are handled in the
\* same clock millisecond, so the cleanup of one never removes the file of
\* the other.
C30_TempPathsDiffer ==
    \A i, j \in TaskIds :
        (i # j /\ HoldsTempFile(i) /\ HoldsTempFile(j))
            => PathOf(i, tasks[i]) # PathOf(j, tasks[j])

\* A validation of document d at its version now has been started.
ValidationStarted(d) ==
    \E i \in TaskIds :
        /\ tasks[i].kind = "diag"
        /\ tasks[i].doc = d
        /\ tasks[i].ver = docs[d].version

\* C31: a timer scheduled by an open or change event of a buffer fires
\* unless a further open or change of that URI cancels it; it fires once
\* (a fired timer stays fired); the step that fires it removes the
\* pending-validation entry of its URI, which was its own, and starts a
\* validation of the document at the version it has then.
C31_TimerFiresOnce ==
    /\ \A h \in 1..MaxEvents :
          (h \in TimerIds /\ Live(h))
             ~> (h \in TimerIds /\ timers[h].state \in {"fired", "cancelled"})
    /\ [][ \A h \in TimerIds :
              /\ timers[h].state = "fired" => timers'[h].state = "fired"
              /\ (Live(h) /\ timers'[h].state = "cancelled")
                    => /\ events' = events + 1
                       /\ timers[h].uri \in DOMAIN documents'
                       /\ Len(timers') = Len(timers) + 1
              /\ (Live(h) /\ timers'[h].state = "fired")
                    => /\ timers[h].uri \in DOMAIN pendingValidations
                       /\ pendingValidations[timers[h].uri] = h
                       /\ timers[h].uri \notin DOMAIN pendingValidations'
                       /\ Len(tasks') = Len(tasks) + 1
                       /\ tasks'[Len(tasks')].kind = "diag"
                       /\ tasks'[Len(tasks')].doc = timers[h].doc
                       /\ tasks'[Len(tasks')].ver = docs[timers[h].doc].version ]_vars

\* C31 witness: a buffer was opened and changed; the timer of the open was
\* cancelled, the timer of the change has fired and a validation of
\* version 2 has been started.
C31_Witness ==
    /\ Len(timers) = 2
    /\ timers[1].state = "cancelled"
    /\ timers[2].state = "fired"
    /\ docs[timers[2].doc].version = 2
    /\ ValidationStarted(timers[2].doc)
    /\ pendingValidations = EmptyMap

\* Run i is inside sendUmpleSyncCommand: an attempt or a delay is pending.
InDispatch(i) == i \in TaskIds /\ tasks[i].pc \in {"conn", "delay"}

\* C32: every dispatch terminates: a dispatch with an attempt or a delay
\* pending comes to its end (its result or its failure is with the caller,
\* whose cleanup starts); while it runs it has made at most 6 attempts (one
\* first attempt and 5 retries), and an attempt is pending only after fewer
\* than 6 have failed.
C32_DispatchTerminates ==
    /\ \A i \in 1..MaxTasks :
          InDispatch(i) ~> (i \in TaskIds /\ tasks[i].pc \in {"rm", "done"})
    /\ [](\A i \in TaskIds :
            /\ tasks[i].tries <= MaxRetries + 1
            /\ tasks[i].pc = "conn" => tasks[i].tries <= MaxRetries)

\* C32 witness: a dispatch has failed after its first attempt and 5
\* retries, all with broken pipe or refused connections, and its cleanup
\* is pending.
C32_Witness ==
    \E i \in TaskIds :
        /\ tasks[i].pc = "rm"
        /\ tasks[i].exit = "exhausted"
        /\ tasks[i].err \in {"EPIPE", "ECONNREFUSED"}
        /\ tasks[i].dispatched

\* Run i was a completion request that got no model items: its build
\* failed or found no model, or the cache gave it the empty list.
GotNoModelItems(i) ==
    /\ tasks[i].kind = "model"
    /\ tasks[i].pc = "done"
    /\ tasks[i].res = "empty"

\* C33 (as claimed): a model build that fails or finds no model stores the
\* empty list for the (URI, version) it was made for, and only an edit or
\* a close ends that: while the buffer of a request that got no model
\* items is open at the version of the request, the cache answers with the
\* empty list; and the cache answers a buffer with the empty list only at
\* a version at which a request got no model items.
C33_FailedBuildCached ==
    /\ \A i \in TaskIds :
          (/\ GotNoModelItems(i)
           /\ tasks[i].uri \in DOMAIN documents
           /\ documents[tasks[i].uri] = tasks[i].doc
           /\ docs[tasks[i].doc].version = tasks[i].ver)
          => (CacheHit(tasks[i].uri) /\ modelCache[tasks[i].uri].items = NoContent)
    /\ \A u \in DOMAIN documents :
          (CacheHit(u) /\ modelCache[u].items = NoContent)
          => \E i \in TaskIds :
                /\ GotNoModelItems(i)
                /\ tasks[i].doc = documents[u]
                /\ tasks[i].ver = docs[documents[u]].version

\* What lies below the project root /ws of what the server made or wrote.
BelowProjectRoot(files) == { p \in files : p[1] \notin {"tmpdir", "shadow"} }

\* Run i is inside createShadowWorkspace (mkdtemp, mirror, overlay).
BuildingShadow(i) == tasks[i].pc \in {"shadowMk", "mirror", "overlay", "owrite"}

\* C34: no step of createShadowWorkspace (mkdtemp of the shadow root, the
\* mirror of the project, rm and writeFile of the overlay) creates, changes
\* or removes a file below the project root, whatever other requests have
\* temp files there; and the overlay writes the text of a buffer only to a
\* shadow path whose link it has removed.
C34_ShadowLeavesProjectAlone ==
    [][\A i \in TaskIds :
          (BuildingShadow(i) /\ tasks'[i] # tasks[i])
          => /\ BelowProjectRoot(fs') = BelowProjectRoot(fs)
             /\ tasks'[i].pc = "owrite" => AFile \notin tasks'[i].links
             /\ (tasks[i].pc = "owrite" /\ tasks'[i].over # NoContent)
                   => (AFile \notin tasks[i].links /\ WrittenThrough \notin fs')]_vars

\* C34 witness: the overlay has written the text of the open buffer into a
\* shadow workspace while another request has its temp file below the
\* project root, and the file of the project was not written.
C34_Witness ==
    \E i \in TaskIds :
        /\ tasks[i].kind = "def"
        /\ tasks[i].pc = "exec"
        /\ tasks[i].over # NoContent
        /\ AFile \notin tasks[i].links
        /\ WrittenThrough \notin fs
        /\ TempFilesInRoot # {}

\* C35 (as claimed): a shadow workspace mirrors only the source files of
\* the project: no temp file that a validation or a model build in flight
\* has written beside the saved file is linked or copied into a shadow
\* tree.
C35_NoTempFileMirrored ==
    \A i \in TaskIds : tasks[i].temps = {}

\* Run i made the only dispatch so far and is in its retries: its first
\* attempt failed and it called startUmpleSyncServer, which spawned the
\* process.
TriggeredStart(i) ==
    /\ tasks[i].pc \in {"conn", "delay"}
    /\ tasks[i].tries >= 1
    /\ spawnCount = 1
    /\ \A j \in TaskIds : j # i => ~tasks[j].dispatched

\* C36 (as claimed): when the service process fails to start, the failure
\* is in the log, and the dispatch that triggered the start does not go on
\* to report a result: from the failure on it ends in failure.
C36_StartFailureFailsDispatch ==
    [][(childState' = "failed" => "spawn-error" \in log')
       /\ \A i \in TaskIds :
             (childState = "failed" /\ TriggeredStart(i))
                => tasks'[i].exit # "result"]_vars

\* The output holds a "{" before a "}".
HoldsObject(out) ==
    \E a, b \in DOMAIN out : a < b /\ out[a] = "{" /\ out[b] = "}"

\* The text from the first "{" to the last "}" of the output.
ObjectText(out) ==
    LET opens == { k \in DOMAIN out : out[k] = "{" }
        closes == { k \in DOMAIN out : out[k] = "}" }
        a == CHOOSE k \in opens : \A j \in opens : k <= j
        b == CHOOSE k \in closes : \A j \in closes : j <= k
    IN SubSeq(out, a, b)

\* The output cannot be parsed: no JSON object in it, invalid JSON, or an
\* object without the member the reader needs.
Unparsable(out) ==
    \/ ~HoldsObject(out)
    \/ ~JSONparse(ObjectText(out)).ok
    \/ "m" \notin JSONparse(ObjectText(out)).members

\* C37: a compiler output that cannot be parsed gives no diagnostics, no
\* model items and no location, and the handler that reads it ends with
\* that value, never with an exception.
C37_UnparsableYieldsNothing ==
    (call.fn = "readOutput" /\ call.done /\ Unparsable(call.out))
        => call.ret = Returned("none")

\* C37 witness: a model build read an output whose object is invalid JSON
\* between other text; JSON.parse threw and the completion got no items.
C37_Witness ==
    /\ call.fn = "readOutput"
    /\ call.done
    /\ call.handler = "completion"
    /\ call.out = <<"x", "{", "x", "}", "x">>
    /\ generateModelJson(call.out).threw
    /\ call.ret = Returned("none")

\* C38: a change event for a URI that is not in the document store leaves
\* the store, every document, the model cache, every timer and the pending
\* validations as they are, and starts, ends and publishes nothing.
C38_ChangeOfUnknownUriIsNoOp ==
    [][\A u \in Uris :
          (u \notin DOMAIN documents /\ OnDidChange(u))
          => UNCHANGED <<docs, documents, modelCache, timers, pendingValidations,
                         tasks, fs, published, log, warnings, serverProcess>>]_vars

\* C38 witness: two notifications were handled, one of them the open of
\* the only buffer, which was never changed and is still open: the other
\* was a change for a URI that was not in the store.  The timer of the
\* open is still pending and the cache holds the model of the buffer.
C38_Witness ==
    /\ events = 2
    /\ Len(docs) = 1
    /\ docs[1].version = 1
    /\ DOMAIN documents = {FileUri}
    /\ DOMAIN modelCache = {FileUri}
    /\ modelCache[FileUri].items # NoContent
    /\ DOMAIN pendingValidations = {FileUri}
    /\ Len(timers) = 1
    /\ timers[1].state = "live"

\* The lexical state after the first k characters of a text, read one
\* character at a time: in code, in a line comment (from // to the line
\* feed), in a block comment (from /* to */) or in a string (from a double
\* quote to the next double quote that no backslash stands before); skip
\* says that the next character is the second one of //, /*, */ or of a
\* backslash pair.
RECURSIVE Lex(_, _)
Lex(text, k) ==
    IF k = 0 THEN [mode |-> "code", skip |-> FALSE]
    ELSE LET prev == Lex(text, k - 1)
             ch == text[k]
             next == IF k < Len(text) THEN text[k + 1] ELSE "none"
         IN IF prev.skip THEN [prev EXCEPT !.skip = FALSE]
            ELSE CASE prev.mode = "code" ->
                        IF ch = "/" /\ next = "/" THEN [mode |-> "line", skip |-> TRUE]
                        ELSE IF ch = "/" /\ next = "*" THEN [mode |-> "block", skip |-> TRUE]
                        ELSE IF ch = QUOTE THEN [mode |-> "string", skip |-> FALSE]
                        ELSE prev
                   [] prev.mode = "line" ->
                        IF ch = LF THEN [mode |-> "code", skip |-> FALSE] ELSE prev
                   [] prev.mode = "block" ->
                        IF ch = "*" /\ next = "/" THEN [mode |-> "code", skip |-> TRUE]
                        ELSE prev
                   [] OTHER ->
                        IF ch = BACKSLASH THEN [mode |-> "string", skip |-> TRUE]
                        ELSE IF ch = QUOTE THEN [mode |-> "code", skip |-> FALSE]
                        ELSE prev

\* The mode the flags of a scanner say it is in.
ModeOf(sc) ==
    CASE ~sc.inLineComment /\ ~sc.inBlockComment /\ ~sc.inString -> "code"
      [] sc.inLineComment /\ ~sc.inBlockComment /\ ~sc.inString -> "line"
      [] ~sc.inLineComment /\ sc.inBlockComment /\ ~sc.inString -> "block"
      [] ~sc.inLineComment /\ ~sc.inBlockComment /\ sc.inString -> "string"
      [] OTHER -> "mixed"

\* C39: at every step of the scan at most one of the three mode flags is
\* set, the flags say the lexical state of the text at the index of the
\* scan (code, line comment, block comment or double-quoted string), and
\* an iteration that starts inside a comment or a string changes neither
\* the scope stack nor the pending keyword, whatever braces and scope
\* keywords stand there.
C39_ModesExclusiveAndOpaque ==
    [][ (call.fn = "detectContext" /\ ~call.done /\ call.sc.i < Len(call.text))
        => /\ ModeOf(call.sc) = Lex(call.text, call.sc.i).mode
           /\ ModeOf(call'.sc) # "mixed"
           /\ ModeOf(call.sc) # "code"
                 => /\ call'.sc.stack = call.sc.stack
                    /\ call'.sc.lastKeyword = call.sc.lastKeyword ]_vars

\* C39 witness: the text 'c"}"{' has been scanned: the closing brace in
\* the string popped nothing and kept the pending keyword, so the brace
\* after the string opened a class body.
C39_Witness ==
    /\ call.fn = "detectContext"
    /\ call.done
    /\ call.text = <<"c", QUOTE, "}", QUOTE, "{">>
    /\ call.sc.stack = <<"class">>
    /\ call.ret = "class"

\* The longest suffix of a text that consists of characters of the set.
TrailingRun(text, chars) ==
    LET from == { k \in 1..(Len(text) + 1) : \A j \in k..Len(text) : text[j] \in chars }
    IN SubSeq(text, CHOOSE k \in from : \A j \in from : k <= j, Len(text))

\* C40 (as claimed): the completion prefix is the longest run of letters,
\* digits and underscores that ends at the cursor, and it is empty when the
\* character before the cursor is none of them.
C40_PrefixIsTrailingRun ==
    (call.fn = "getCompletionPrefix" /\ call.done)
        => /\ call.ret = TrailingRun(call.lineText, {"c", "_", "1"})
           /\ (call.lineText = <<>> \/ call.lineText[Len(call.lineText)] = " ")
                 => call.ret = <<>>

\* C40 (amended): the completion prefix is the longest text that ends at
\* the cursor, consists of letters, digits and underscores and starts with
\* a letter or an underscore: the longest run that ends at the cursor
\* without the digits it starts with.  It is empty when the character
\* before the cursor is none of them and when the run holds digits only.
C40_PrefixIsTrailingIdentifier ==
    (call.fn = "getCompletionPrefix" /\ call.done)
        => LET text == call.lineText
               run == TrailingRun(text, {"c", "_", "1"})
               digits == { k \in 0..Len(run) : \A j \in 1..k : run[j] = "1" }
               lead == CHOOSE k \in digits : \A j \in digits : j <= k
           IN /\ call.ret = SubSeq(run, lead + 1, Len(run))
              /\ (text = <<>> \/ text[Len(text)] = " ") => call.ret = <<>>
              /\ (\A j \in DOMAIN run : run[j] = "1") => call.ret = <<>>

\* C40 witness: before the cursor stands ' 1c_1': the run that ends at the
\* cursor starts with a digit, and the prefix is 'c_1'.
C40_Witness ==
    /\ call.fn = "getCompletionPrefix"
    /\ call.done
    /\ call.lineText = <<" ", "1", "c", "_", "1">>
    /\ call.ret = <<"c", "_", "1">>

============================================================================
